---- MODULE Spec2Model ----
(***************************************************************************)
(* Spirit agent orchestration engine: the turn loop of AgentLoop.run, its  *)
(* permission gate, tool dispatch through the ToolRegistry, the provider   *)
(* call with its retry policy, and the control operations abort,           *)
(* clearHistory and compact.                                               *)
(***************************************************************************)
EXTENDS Integers, Sequences, FiniteSets, TLC

(***************************************************************************)
(* Bounds of the model.                                                    *)
(***************************************************************************)
\* budget of environment events over the loop's lifetime: each run(),
\* abort(), clearHistory() and compact() invocation by the host costs one
\* unit, each successful provider response ResponseWeight units (it brings
\* a whole batch of tool requests with it)
MaxEvents == 7

ResponseWeight == 2

\* spawn() calls explored
MaxSpawns == 3

\* lines of one streamed response
MaxLines == 4

\* content blocks or tool calls of one streamed response
MaxBlocks == 2

\* bytes a backend writes ahead of the reader, in pieces
MaxUnread == 3

(***************************************************************************)
(* Program constants.                                                      *)
(***************************************************************************)
DEFAULT_MAX_TURNS == 50

DANGEROUS_TOOLS == {"Bash", "Write", "Edit"}

\* ToolRegistry constructor plus the tools AgentLoop's constructor registers,
\* in the order they are registered
BuiltinTools ==
  <<"Bash", "Read", "Write", "Edit", "Glob", "Grep", "AskUserQuestion",
    "TaskCreate", "TaskUpdate", "SpawnAgent", "WaitForAgent">>

MaxTurnsSentinel == "[Spirit: max turns reached]"

PermissionDeniedText == "Permission denied by user."

\* retry policy of the provider call
MAX_RETRIES == 3

RETRY_BASE_DELAY_MS == 1000

RETRYABLE_STATUS == {429, 500, 502, 503, 529}

\* a failure that carries no HTTP status (connectivity, aborted fetch)
NoStatus == 0

\* failures a provider attempt can end with
FailureStatuses == RETRYABLE_STATUS \cup {400, 401, NoStatus}

\* AgentConfig.maxTurns left unset
Unset == -1

\* the most turns spawn() grants a child loop
CHILD_MAX_TURNS == 20

(***************************************************************************)
(* Inputs the environment supplies.                                        *)
(***************************************************************************)
\* one block of a provider response before the provider stamps its id
T(t) == [type |-> "text", val |-> t]

U(n) == [type |-> "tool_use", val |-> n]

\* the responses the provider may stream: empty, text only, one request,
\* text around a request, and batches of two requests mixing gated,
\* ungated and unknown tools
ResponseShapes ==
  {<<>>, <<T("x"), T("y")>>, <<U("Bash")>>, <<T("x"), U("Read"), T("y")>>,
   <<U("Bash"), U("Read")>>, <<U("Ghost"), U("Bash")>>}

Usages == {[inputTokens |-> 2, outputTokens |-> 1]}

ConfiguredMaxTurns == {Unset, 0, 1, 2}

\* what a registered executor does with one call
ExecutorBehaviours == {"ok", "throw", "hang"}

(***************************************************************************)
(* Content model (types.ts).                                               *)
(***************************************************************************)
\* blocks that carry no tool-use id
NoId == <<>>

TextBlock(t) ==
  [type |-> "text", text |-> t, id |-> NoId, name |-> "", is_error |-> FALSE]

ToolUseBlock(i, n) ==
  [type |-> "tool_use", text |-> "", id |-> i, name |-> n, is_error |-> FALSE]

ToolResultBlock(i, c, e) ==
  [type |-> "tool_result", text |-> c, id |-> i, name |-> "", is_error |-> e]

TextMessage(r, t) == [role |-> r, text |-> t, content |-> <<>>]

BlockMessage(r, blocks) == [role |-> r, text |-> "", content |-> blocks]

\* the provider's content list: the tool use at position k of the response
\* that arrives as event n carries an id no other tool use carries
StampContent(shape, n) ==
  [k \in 1..Len(shape) |->
     IF shape[k].type = "text" THEN TextBlock(shape[k].val)
     ELSE ToolUseBlock(<<n, k>>, shape[k].val)]

IsToolUse(b) == b.type = "tool_use"

IsText(b) == b.type = "text"

\* streamed.content.filter(b => b.type === "tool_use")
FilterToolUses(content) == SelectSeq(content, IsToolUse)

\* textParts.join("")
RECURSIVE JoinText(_)
JoinText(content) ==
  IF content = <<>> THEN ""
  ELSE (IF IsText(Head(content)) THEN Head(content).text ELSE "") \o JoinText(Tail(content))

(***************************************************************************)
(* State.                                                                  *)
(***************************************************************************)
VARIABLES
  config,          \* AgentConfig: maxTurns, hasPermissionHook
  messages,        \* AgentLoop.messages
  stats,           \* AgentLoop.stats (elapsedMs left out: wall-clock time)
  tools,           \* ToolRegistry.tools in insertion order: name, definition, execute
  request,         \* the tools field of the latest provider request of run()
  invoked,         \* <<name, executor>> of the latest executor tools.execute invoked
  abortController, \* whether this.abortController is set (a run has started)
  aborted,         \* abortController.signal.aborted
  pc,              \* where run() is: idle, calling, backoff, perm, exec, or how
                   \* the last run ended: completed, maxturns, errored
  attempts,        \* attempts made for the last logical provider call
  retryLog,        \* retry notifications and waits of that logical call
  lastFailure,     \* <<status>> of its most recent failed attempt, <<>> if none failed
  toolUses,        \* run(): toolUses of the turn in progress
  idx,             \* run(): position of the for loop in toolUses
  toolResults,     \* run(): toolResults of the turn in progress
  pending,         \* how the awaited tools.execute promise will settle
  reqLog,          \* what run() did for the request in progress, in order
  inflight,        \* tool-use ids whose executor is running
  executed,        \* tool-use ids of the last batch whose executor was invoked
  denied,          \* tool-use ids of the last batch the permission hook denied
  output,          \* return value of the last run that returned
  pcCompact,       \* where compact() is: idle, awaiting (its signal can still
                   \* be aborted), detached (no signal, or a stale one), doomed
                   \* (its signal is aborted)
  compactOut,      \* what the last compact() ended with
  nEvents,         \* environment events so far
  runCleared,      \* clearHistory() was invoked since the last run() started
  idCounter,       \* SubAgentManager.idCounter
  agents,          \* SubAgentManager.agents in insertion order: id, whether the
                   \* child loop was aborted, how its run() promise stands, and
                   \* the child loop's own maxTurns, messages, stats and tools
  completedResults, \* SubAgentManager.completedResults
  spawnLog,        \* the ids spawn() returned, in order
  waitForCall,     \* the latest waitFor() call: its state, id and value
  waitAllCall,     \* the latest waitAll() call: its state, gathered ids, value
  parser,          \* the locals of the provider's parseSSEStream call in progress
  sent,            \* the lines the backend has written on the response body
  wire,            \* the bytes of those lines no read() has delivered yet
  emitted,         \* the snapshots emitStats() handed to onStats, latest only
  tasks,           \* AgentLoop.tasks
  taskIdCounter,   \* AgentLoop.taskIdCounter
  userInputResolver, \* ShiroProvider.userInputResolver: 0 for null, else
                   \* the position in `reads` of the promise it resolves
  reads            \* the promises readFromUser has returned, in order: their
                   \* caller and the value each was resolved with, if any

\* one streaming call of the provider
streamVars == <<parser, sent, wire>>

\* the task list of the loop
taskVars == <<tasks, taskIdCounter>>

\* the host provider's pending user input
inputVars == <<userInputResolver, reads>>

\* the loop's own state
loopOwnVars ==
  <<config, messages, stats, tools, request, invoked, abortController, aborted, pc,
    attempts, retryLog,
    lastFailure, toolUses, idx, toolResults, pending, reqLog, inflight, executed,
    denied, output, pcCompact, compactOut, nEvents, runCleared, emitted, taskVars,
    inputVars>>

\* the loop's own state and the stream its provider is reading
loopVars == <<loopOwnVars, streamVars>>

\* the loop's own state but the event count
otherLoopVars ==
  <<config, messages, stats, tools, request, invoked, abortController, aborted, pc,
    attempts, retryLog,
    lastFailure, toolUses, idx, toolResults, pending, reqLog, inflight, executed,
    denied, output, pcCompact, compactOut, runCleared, parser, sent, wire, emitted,
    taskVars, inputVars>>

\* the state of its sub-agent manager
subVars ==
  <<idCounter, agents, completedResults, spawnLog, waitForCall, waitAllCall>>

vars == <<loopVars, subVars, streamVars>>

\* what each group of operations leaves alone
hostVars == <<config, tools, streamVars, inputVars>>

setupVars == <<hostVars, emitted>>

callVars == <<attempts, retryLog, lastFailure, request>>

batchVars ==
  <<toolUses, idx, toolResults, pending, reqLog, inflight, executed, denied, invoked,
    taskVars>>

compactVars == <<pcCompact, compactOut>>

(***************************************************************************)
(* ToolRegistry                                                            *)
(***************************************************************************)
\* the registry a loop's constructor leaves: every built-in tool with the
\* definition and the executor it ships with
InitialRegistry ==
  [k \in 1..Len(BuiltinTools) |->
     [name |-> BuiltinTools[k], definition |-> "builtin", execute |-> "builtin"]]

\* this.tools.get(name)
RegisteredAt(reg, name) == {k \in 1..Len(reg) : reg[k].name = name}

Has(reg, name) == RegisteredAt(reg, name) # {}

Lookup(reg, name) == reg[CHOOSE k \in RegisteredAt(reg, name) : TRUE]

\* a registration that always adds an entry
RegisterAppend(reg, name, definition, execute) ==
  Append(reg, [name |-> name, definition |-> definition, execute |-> execute])

\* register(): this.tools.set(definition.name, { definition, execute }); a
\* new name goes last, a known name keeps its place and takes the new pair
Register(reg, name, definition, execute) ==
  IF Has(reg, name)
  THEN [k \in 1..Len(reg) |->
          IF reg[k].name = name
          THEN [name |-> name, definition |-> definition, execute |-> execute]
          ELSE reg[k]]
  ELSE Append(reg, [name |-> name, definition |-> definition, execute |-> execute])

\* getDefinitions(): the definitions in the map's order
GetDefinitions(reg) ==
  [k \in 1..Len(reg) |-> [name |-> reg[k].name, definition |-> reg[k].definition]]

\* no streaming call is in progress
NoCall == [backend |-> "", status |-> "idle"]

ZeroStats ==
  [inputTokens |-> 0, outputTokens |-> 0, totalTokens |-> 0, turns |-> 0, toolCalls |-> 0]

\* a loop after construction, its maxTurns being one of `budgets`
InitWith(budgets) ==
  /\ config \in [maxTurns : budgets, hasPermissionHook : BOOLEAN]
  /\ messages = <<>>
  /\ stats = ZeroStats
  /\ tools = InitialRegistry
  /\ request = <<>>
  /\ invoked = <<>>
  /\ abortController = FALSE
  /\ aborted = FALSE
  /\ pc = "idle"
  /\ attempts = 0
  /\ retryLog = <<>>
  /\ lastFailure = <<>>
  /\ toolUses = <<>>
  /\ idx = 0
  /\ toolResults = <<>>
  /\ pending = "none"
  /\ reqLog = <<>>
  /\ inflight = {}
  /\ executed = {}
  /\ denied = {}
  /\ output = ""
  /\ pcCompact = "idle"
  /\ compactOut = ""
  /\ nEvents = 0
  /\ runCleared = FALSE
  /\ idCounter = 0
  /\ agents = <<>>
  /\ completedResults = <<>>
  /\ spawnLog = <<>>
  /\ waitForCall = [state |-> "idle", ids |-> <<>>, value |-> <<>>]
  /\ waitAllCall = [state |-> "idle", ids |-> <<>>, value |-> <<>>]
  /\ parser = NoCall
  /\ sent = <<>>
  /\ wire = <<>>
  /\ emitted = <<>>
  /\ tasks = <<>>
  /\ taskIdCounter = 0
  /\ userInputResolver = 0
  /\ reads = <<>>

Init == InitWith(ConfiguredMaxTurns)

DecimalDigits == <<"0", "1", "2", "3", "4", "5", "6", "7", "8", "9">>

\* String(n) for a non-negative integer
RECURSIVE String(_)
String(n) ==
  IF n < 10 THEN DecimalDigits[n + 1]
  ELSE String(n \div 10) \o DecimalDigits[(n % 10) + 1]

(***************************************************************************)
(* AgentLoop.run                                                           *)
(***************************************************************************)
\* const maxTurns = this.config.maxTurns ?? DEFAULT_MAX_TURNS
MaxTurns == IF config.maxTurns = Unset THEN DEFAULT_MAX_TURNS ELSE config.maxTurns

Running == pc \in {"calling", "backoff", "perm", "exec"}

\* the test written with <= : one turn too many
LoopConditionInclusive(st) == st.turns <= MaxTurns

\* while (this.stats.turns < maxTurns)
LoopCondition(st) == st.turns < MaxTurns

\* the while test and what follows it up to the next await: the first
\* attempt of a provider call, or the return of the sentinel
WhileHead(st) ==
  IF LoopCondition(st)
  THEN /\ pc' = "calling"
       /\ attempts' = 1
       /\ retryLog' = <<>>
       /\ lastFailure' = <<>>
       /\ request' = GetDefinitions(tools)
       /\ output' = ""
  ELSE /\ pc' = "maxturns"
       /\ output' = MaxTurnsSentinel
       /\ UNCHANGED callVars

\* DANGEROUS_TOOLS.has(toolUse.name) && this.config.onPermissionRequest
NeedsPermission(u) == u.name \in DANGEROUS_TOOLS /\ config.hasPermissionHook

\* the executor is dispatched without being awaited: it is still running
\* when the loop moves on
AfterCompletionKeep(fl, id) == fl

\* the executors left running once the awaited call for `id` has settled
AfterCompletion(fl, id) == fl \ {id}

(***************************************************************************)
(* The task tools the constructor registers.                               *)
(***************************************************************************)
\* what a TaskCreate request may carry
CreateInputs == {[subject |-> "s"]}

\* what a TaskUpdate request may carry: the id of a task, or of none, and
\* the new status
UpdateInputs == [taskId : {"1", "2", "9"}, status : {"pending", "in_progress", "completed"}]

\* the TaskCreate executor: the task is pushed under the next id; the
\* promise resolves with the text returned
TaskCreate(input) ==
  LET id == String(taskIdCounter + 1)
  IN /\ taskIdCounter' = taskIdCounter + 1
     /\ tasks' = Append(tasks, [id |-> id, subject |-> input.subject, status |-> "pending"])
     /\ pending' = "Task #" \o id \o " created: " \o input.subject

\* this.tasks.find(t => t.id === taskId): the first match
FindTask(taskId) == {k \in 1..Len(tasks) : tasks[k].id = taskId}

\* an unknown id resets the list
TaskUpdateOrReset(input) ==
  IF FindTask(input.taskId) = {}
  THEN /\ pending' = "Error: task " \o input.taskId \o " not found"
       /\ tasks' = <<>>
       /\ taskIdCounter' = taskIdCounter
  ELSE LET k == CHOOSE j \in FindTask(input.taskId) : \A i \in FindTask(input.taskId) : j <= i
       IN /\ tasks' = [tasks EXCEPT ![k].status = input.status]
          /\ taskIdCounter' = taskIdCounter
          /\ pending' = "Task #" \o tasks[k].id \o " -> " \o input.status

\* the TaskUpdate executor (the arrow of the text it returns is written ->)
TaskUpdate(input) ==
  IF FindTask(input.taskId) = {}
  THEN /\ pending' = "Error: task " \o input.taskId \o " not found"
       /\ UNCHANGED taskVars
  ELSE LET k == CHOOSE j \in FindTask(input.taskId) : \A i \in FindTask(input.taskId) : j <= i
       IN /\ tasks' = [tasks EXCEPT ![k].status = input.status]
          /\ taskIdCounter' = taskIdCounter
          /\ pending' = "Task #" \o tasks[k].id \o " -> " \o input.status

\* an executor of the registry is invoked with the request's input: the
\* task tools act on the loop's task list and return at once, any other
\* executor behaves in one of ExecutorBehaviours
Executor(name, execute) ==
  IF execute = "builtin" /\ name = "TaskCreate"
  THEN \E input \in CreateInputs : TaskCreate(input)
  ELSE IF execute = "builtin" /\ name = "TaskUpdate"
  THEN \E input \in UpdateInputs : TaskUpdate(input)
  ELSE /\ pending' \in ExecutorBehaviours
       /\ UNCHANGED taskVars

\* tools.execute(name, input, provider) up to its await: the registry
\* lookup throws for an unknown name, otherwise the executor is invoked
Invoke(u, fl, ex) ==
  IF ~Has(tools, u.name)
  THEN /\ pending' = "unknown"
       /\ executed' = ex
       /\ inflight' = fl
       /\ invoked' = invoked
       /\ UNCHANGED taskVars
  ELSE /\ Executor(u.name, Lookup(tools, u.name).execute)
       /\ executed' = ex \cup {u.id}
       /\ inflight' = fl \cup {u.id}
       /\ invoked' = <<u.name, Lookup(tools, u.name).execute>>

\* the executor is started without telling the observer
DispatchUnannounced(u, log, fl, ex) ==
  /\ pc' = "exec"
  /\ reqLog' = log \o <<"execute">>
  /\ Invoke(u, fl, ex)

\* onToolStart, then tools.execute(name, input, provider) up to its await
Dispatch(u, log, fl, ex) ==
  /\ pc' = "exec"
  /\ reqLog' = log \o <<"toolStart", "execute">>
  /\ Invoke(u, fl, ex)

\* the message the batch's results are pushed as
ResultsMessage(results) == BlockMessage("user", results)

\* a request that waits for permission is not counted
IterateCountUngated(msgs, uses, k, results, st, fl, ex) ==
  IF k > Len(uses)
  THEN /\ messages' = Append(msgs, ResultsMessage(results))
       /\ stats' = st
       /\ toolUses' = <<>>
       /\ idx' = 0
       /\ toolResults' = <<>>
       /\ pending' = "none"
       /\ reqLog' = <<>>
       /\ executed' = ex
       /\ inflight' = fl
       /\ invoked' = invoked
       /\ UNCHANGED taskVars
       /\ WhileHead(st)
  ELSE /\ messages' = msgs
       /\ stats' = IF NeedsPermission(uses[k]) THEN st ELSE [st EXCEPT !.toolCalls = @ + 1]
       /\ toolUses' = uses
       /\ idx' = k
       /\ toolResults' = results
       /\ output' = output
       /\ UNCHANGED callVars
       /\ IF NeedsPermission(uses[k])
          THEN /\ pc' = "perm"
               /\ pending' = "none"
               /\ reqLog' = <<"count", "permission">>
               /\ executed' = ex
               /\ inflight' = fl
               /\ invoked' = invoked
               /\ UNCHANGED taskVars
          ELSE Dispatch(uses[k], <<"count">>, fl, ex)

\* the for loop over toolUses from position k on, up to its next await;
\* past the last request the batch is pushed as one user message and the
\* while loop goes round
Iterate(msgs, uses, k, results, st, fl, ex) ==
  IF k > Len(uses)
  THEN /\ messages' = Append(msgs, ResultsMessage(results))
       /\ stats' = st
       /\ toolUses' = <<>>
       /\ idx' = 0
       /\ toolResults' = <<>>
       /\ pending' = "none"
       /\ reqLog' = <<>>
       /\ executed' = ex
       /\ inflight' = fl
       /\ invoked' = invoked
       /\ UNCHANGED taskVars
       /\ WhileHead(st)
  ELSE /\ messages' = msgs
       /\ stats' = [st EXCEPT !.toolCalls = @ + 1]
       /\ toolUses' = uses
       /\ idx' = k
       /\ toolResults' = results
       /\ output' = output
       /\ UNCHANGED callVars
       /\ IF NeedsPermission(uses[k])
          THEN /\ pc' = "perm"
               /\ pending' = "none"
               /\ reqLog' = <<"count", "permission">>
               /\ executed' = ex
               /\ inflight' = fl
               /\ invoked' = invoked
               /\ UNCHANGED taskVars
          ELSE Dispatch(uses[k], <<"count">>, fl, ex)

\* run(userMessage) up to its first await
Run ==
  /\ ~Running
  /\ nEvents < MaxEvents
  /\ nEvents' = nEvents + 1
  /\ abortController' = TRUE
  /\ aborted' = FALSE
  /\ messages' = Append(messages, TextMessage("user", "u"))
  /\ runCleared' = FALSE
  /\ pcCompact' = IF pcCompact = "awaiting" THEN "detached" ELSE pcCompact
  /\ WhileHead(stats)
  /\ UNCHANGED <<setupVars, subVars, stats, batchVars, compactOut>>

\* the total is left as it was
AddUsageStaleTotal(st, usage) ==
  [st EXCEPT !.inputTokens = @ + usage.inputTokens,
             !.outputTokens = @ + usage.outputTokens,
             !.turns = @ + 1]

\* the stats update after a successful provider call
AddUsage(st, usage) ==
  [st EXCEPT !.inputTokens = @ + usage.inputTokens,
             !.outputTokens = @ + usage.outputTokens,
             !.totalTokens = st.inputTokens + usage.inputTokens
                             + st.outputTokens + usage.outputTokens,
             !.turns = @ + 1]

\* emitStats(): this.config.onStats?.({ ...this.stats }), a copy of the
\* counters as they stand
EmitStats(st) == <<st>>

RECURSIVE JoinTextReversed(_)
JoinTextReversed(content) ==
  IF content = <<>> THEN ""
  ELSE JoinTextReversed(Tail(content))
       \o (IF IsText(Head(content)) THEN Head(content).text ELSE "")

\* the text parts joined last to first
ReturnTextReversed(content) == JoinTextReversed(content)

\* return textParts.join("")
ReturnText(content) == JoinText(content)

\* createMessageStream resolves: stats update, assistant message, then
\* either the return of the joined text or the first tool request
ProviderSuccess(shape, usage) ==
  /\ pc = "calling"
  /\ ~aborted
  /\ nEvents + ResponseWeight <= MaxEvents
  /\ nEvents' = nEvents + ResponseWeight
  /\ LET content == StampContent(shape, nEvents)
         st == AddUsage(stats, usage)
         uses == FilterToolUses(content)
         pushed == Append(messages, BlockMessage("assistant", content))
     IN /\ emitted' = EmitStats(st)
        /\ IF uses = <<>>
           THEN /\ messages' = pushed
                /\ stats' = st
                /\ pc' = "completed"
                /\ output' = ReturnText(content)
                /\ UNCHANGED <<callVars, batchVars>>
           ELSE /\ Iterate(pushed, uses, 1, <<>>, st, inflight, {})
                /\ denied' = {}
  /\ UNCHANGED <<hostVars, subVars, abortController, aborted, compactVars, runCleared>>

\* the result block run() records for the settled tools.execute call
ResultOf(u, outcome) ==
  CASE outcome = "ok" -> ToolResultBlock(u.id, "ok", FALSE)
    [] outcome = "throw" -> ToolResultBlock(u.id, "Error: boom", TRUE)
    [] outcome = "unknown" -> ToolResultBlock(u.id, "Error: Unknown tool: " \o u.name, TRUE)
    [] OTHER -> ToolResultBlock(u.id, outcome, FALSE)

DeniedResult(u) == ToolResultBlock(u.id, PermissionDeniedText, TRUE)

\* toolResults.unshift(...): the newest result first
PushResultFront(results, r) == <<r>> \o results

\* toolResults.push(...)
PushResult(results, r) == Append(results, r)

\* the denial is ignored: no result, no `continue`, the executor runs
AfterDenialFallThrough(u) ==
  /\ Dispatch(u, reqLog, inflight, executed)
  /\ UNCHANGED <<messages, stats, toolUses, idx, toolResults, callVars, output>>

\* what follows a denial: the result is pushed and `continue` skips the
\* executor
AfterDenial(u) ==
  Iterate(messages, toolUses, idx + 1, PushResult(toolResults, DeniedResult(u)), stats,
          inflight, executed)

\* the permission hook resolves
PermissionDecision(allowed) ==
  /\ pc = "perm"
  /\ LET u == toolUses[idx]
     IN IF allowed
        THEN /\ Dispatch(u, reqLog, inflight, executed)
             /\ UNCHANGED <<messages, stats, toolUses, idx, toolResults, callVars, output,
                            denied>>
        ELSE /\ denied' = denied \cup {u.id}
             /\ AfterDenial(u)
  /\ UNCHANGED <<setupVars, subVars, abortController, aborted, compactVars, nEvents, runCleared>>

\* no try / catch: a throw of tools.execute rejects run()
AfterSettledNoCatch(u, outcome) ==
  IF outcome = "ok"
  THEN Iterate(messages, toolUses, idx + 1, PushResult(toolResults, ResultOf(u, outcome)),
               stats, AfterCompletion(inflight, u.id), executed)
  ELSE /\ pc' = "errored"
       /\ UNCHANGED <<messages, stats, toolUses, idx, toolResults, pending, reqLog,
                      executed, inflight, invoked, taskVars, output, callVars>>

\* the awaited tools.execute settles, by return or by throw: the try /
\* catch turns either into a result block, and the for loop goes on
AfterSettled(u, outcome) ==
  Iterate(messages, toolUses, idx + 1, PushResult(toolResults, ResultOf(u, outcome)), stats,
          AfterCompletion(inflight, u.id), executed)

ToolReturn ==
  /\ pc = "exec"
  /\ pending \notin {"none", "hang"}
  /\ emitted' = EmitStats(stats)
  /\ AfterSettled(toolUses[idx], pending)
  /\ UNCHANGED <<hostVars, subVars, abortController, aborted, denied, compactVars, nEvents,
                 runCleared>>

(***************************************************************************)
(* The retry wrapper around one logical provider call.                     *)
(***************************************************************************)
IsRetryable(status) == status \in RETRYABLE_STATUS

RECURSIVE Pow2(_)
Pow2(n) == IF n = 0 THEN 1 ELSE 2 * Pow2(n - 1)

\* a backoff that grows by the base delay instead of doubling
BackoffDelayLinear(k) == RETRY_BASE_DELAY_MS * k

\* the wait before retry k (k = 1, 2, 3)
BackoffDelay(k) == RETRY_BASE_DELAY_MS * Pow2(k - 1)

\* one retry more than the budget
ShouldRetryOnceMore(status, made) == IsRetryable(status) /\ made <= MAX_RETRIES + 1

\* every failure is retried, whatever its status
ShouldRetryAnyStatus(status, made) == made <= MAX_RETRIES

\* whether the failed attempt number `made` is followed by another one
ShouldRetry(status, made) == IsRetryable(status) /\ made <= MAX_RETRIES

\* the observer is told of retry k, then the wait starts
RetryEvents(k) ==
  <<[kind |-> "notify", retry |-> k, ms |-> BackoffDelay(k)],
    [kind |-> "wait", retry |-> k, ms |-> BackoffDelay(k)]>>

\* one attempt fails: retried after a wait, or the run ends with the failure
ProviderFail(status) ==
  /\ pc = "calling"
  /\ lastFailure' = <<status>>
  /\ IF ShouldRetry(status, attempts)
     THEN /\ pc' = "backoff"
          /\ retryLog' = retryLog \o RetryEvents(attempts)
     ELSE /\ pc' = "errored"
          /\ retryLog' = retryLog
  /\ UNCHANGED <<setupVars, subVars, messages, stats, abortController, aborted, attempts, request, batchVars,
                 output, compactVars, nEvents, runCleared>>

\* the backoff timer fires: the next attempt starts
BackoffElapsed ==
  /\ pc = "backoff"
  /\ pc' = "calling"
  /\ attempts' = attempts + 1
  /\ UNCHANGED <<setupVars, subVars, messages, stats, abortController, aborted, retryLog, lastFailure, request,
                 batchVars,
                 output, compactVars, nEvents, runCleared>>

(***************************************************************************)
(* The sub-agent manager of one loop.                                      *)
(***************************************************************************)
\* an id taken from the number of running agents
NextIdFromSize(counter) == String(Len(agents) + 1)

\* the id spawn() hands out: String(++this.idCounter)
NextId(counter) == String(counter + 1)

\* positions of the running agents with this id
RunningAt(id) == {k \in 1..Len(agents) : agents[k].id = id}

IsRunning(id) == RunningAt(id) # {}

\* completedResults.find((r) => r.id === id)
CompletedAt(id) == {k \in 1..Len(completedResults) : completedResults[k].id = id}

FindCompleted(id) ==
  completedResults[CHOOSE k \in CompletedAt(id) : \A j \in CompletedAt(id) : k <= j]

\* agents.delete(id): the other entries keep their insertion order
RECURSIVE DeleteAgent(_, _)
DeleteAgent(as, id) ==
  IF as = <<>> THEN <<>>
  ELSE IF Head(as).id = id THEN DeleteAgent(Tail(as), id)
  ELSE <<Head(as)>> \o DeleteAgent(Tail(as), id)

\* agents.set(id, entry): a new key goes last, an existing key keeps its place
SetAgent(as, entry) ==
  IF \E k \in 1..Len(as) : as[k].id = entry.id
  THEN [k \in 1..Len(as) |-> IF as[k].id = entry.id THEN entry ELSE as[k]]
  ELSE Append(as, entry)

Min(a, b) == IF a <= b THEN a ELSE b

\* childConfig.maxTurns:
\* this.config.maxTurns ? Math.min(this.config.maxTurns, 20) : 20
\* (an unset maxTurns and 0 are both falsy)
ChildMaxTurns(parentMaxTurns) ==
  IF parentMaxTurns # Unset /\ parentMaxTurns # 0
  THEN Min(parentMaxTurns, CHILD_MAX_TURNS)
  ELSE CHILD_MAX_TURNS

\* the prompt a task is spawned with
Prompts == {"p"}

\* new AgentLoop(this.provider, childConfig) followed by run(prompt) up to
\* its first await: the child has its own conversation, stats and registry
NewChild(id, prompt) ==
  [id |-> id, aborted |-> FALSE, run |-> "pending",
   maxTurns |-> ChildMaxTurns(config.maxTurns),
   messages |-> <<TextMessage("user", prompt)>>,
   stats |-> ZeroStats,
   tools |-> InitialRegistry]

\* spawn(): the child loop is built and its run() started; run() is
\* synchronous up to its first await, so the child is awaiting its provider
\* call when spawn returns the id
Spawn ==
  /\ idCounter < MaxSpawns
  /\ nEvents < MaxEvents
  /\ nEvents' = nEvents + 1
  /\ LET id == NextId(idCounter)
     IN /\ idCounter' = idCounter + 1
        /\ \E prompt \in Prompts : agents' = SetAgent(agents, NewChild(id, prompt))
        /\ spawnLog' = Append(spawnLog, id)
  /\ UNCHANGED <<completedResults, waitForCall, waitAllCall>>
  /\ UNCHANGED otherLoopVars

\* childConfig.onPermissionRequest: undefined
ChildHasPermissionHook == FALSE

\* DANGEROUS_TOOLS.has(toolUse.name) && this.config.onPermissionRequest, in
\* a child loop
ChildNeedsPermission(name) == name \in DANGEROUS_TOOLS /\ ChildHasPermissionHook

\* what one turn of a child's run() adds to the child's conversation: the
\* assistant's request for the tool `name` and the result of the child's
\* own executor
ChildTurnMessages(a, name) ==
  LET id == <<a.id, a.stats.turns + 1>>
  IN <<BlockMessage("assistant", <<ToolUseBlock(id, name)>>),
       BlockMessage("user", <<ToolResultBlock(id, "ok", FALSE)>>)>>

\* the child after one turn of its run(): the usage is counted, the request
\* is executed and counted, the two messages are pushed; once its budget is
\* used up its run() returns
AfterChildTurn(a, usage, name) ==
  LET st == [AddUsage(a.stats, usage) EXCEPT !.toolCalls = @ + 1]
  IN [a EXCEPT !.messages = a.messages \o ChildTurnMessages(a, name),
               !.stats = st,
               !.run = IF st.turns < a.maxTurns THEN "pending" ELSE "returned"]

\* a child that writes its turn into its parent's conversation and stats
ChildTurnShared(id, usage, name) ==
  /\ nEvents < MaxEvents
  /\ nEvents' = nEvents + 1
  /\ \E k \in RunningAt(id) :
       /\ agents[k].run = "pending"
       /\ ~agents[k].aborted
       /\ agents' = [agents EXCEPT ![k] = AfterChildTurn(agents[k], usage, name)]
       /\ messages' = messages \o ChildTurnMessages(agents[k], name)
       /\ stats' = [AddUsage(stats, usage) EXCEPT !.toolCalls = @ + 1]
  /\ UNCHANGED <<idCounter, completedResults, spawnLog, waitForCall, waitAllCall>>
  /\ UNCHANGED <<config, tools, request, invoked, abortController, aborted, pc, attempts,
                 retryLog, lastFailure, toolUses, idx, toolResults, pending, reqLog,
                 inflight, executed, denied, output, pcCompact, compactOut, runCleared,
                 streamVars, emitted, taskVars, inputVars>>

\* one turn of a child's run(): its provider call resolves with a request
\* for the tool `name`, which needs no permission in the child and is
\* executed on the child's own registry
ChildTurn(id, usage, name) ==
  /\ ~ChildNeedsPermission(name)
  /\ nEvents < MaxEvents
  /\ nEvents' = nEvents + 1
  /\ \E k \in RunningAt(id) :
       /\ agents[k].run = "pending"
       /\ ~agents[k].aborted
       /\ agents' = [agents EXCEPT ![k] = AfterChildTurn(agents[k], usage, name)]
  /\ UNCHANGED <<idCounter, completedResults, spawnLog, waitForCall, waitAllCall>>
  /\ UNCHANGED otherLoopVars

\* how a child's run() may settle
ChildOutcomes == {"returned", "rejected"}

\* the child's run() promise settles
ChildRunEnds(id, outcome) ==
  /\ \E k \in RunningAt(id) :
       /\ agents[k].run = "pending"
       /\ agents' = [agents EXCEPT ![k].run = outcome]
  /\ UNCHANGED <<idCounter, completedResults, spawnLog, waitForCall, waitAllCall>>
  /\ UNCHANGED loopVars

\* a failure reported as a completed task with an empty result
AgentResultSwallowError(id, outcome) ==
  [id |-> id, result |-> IF outcome = "returned" THEN "xy" ELSE "",
   status |-> "completed", error |-> ""]

\* the SubAgentResult built by the then / catch callbacks
AgentResult(id, outcome) ==
  IF outcome = "returned"
  THEN [id |-> id, result |-> "xy", status |-> "completed", error |-> ""]
  ELSE [id |-> id, result |-> "", status |-> "error", error |-> "boom"]

\* the result is pushed but the agent stays in the map
ChildRecordedKeep(id) ==
  /\ \E k \in RunningAt(id) :
       /\ agents[k].run # "pending"
       /\ CompletedAt(id) = {}
       /\ completedResults' = Append(completedResults, AgentResult(id, agents[k].run))
       /\ agents' = agents
  /\ UNCHANGED <<idCounter, spawnLog, waitForCall, waitAllCall>>
  /\ UNCHANGED loopVars

\* the then / catch callback of spawn(): the result is pushed and the agent
\* deleted, in one synchronous callback
ChildRecorded(id) ==
  /\ \E k \in RunningAt(id) :
       /\ agents[k].run # "pending"
       /\ completedResults' = Append(completedResults, AgentResult(id, agents[k].run))
       /\ agents' = DeleteAgent(agents, id)
  /\ UNCHANGED <<idCounter, spawnLog, waitForCall, waitAllCall>>
  /\ UNCHANGED loopVars

\* ids a caller may pass: those handed out so far, and the one after them
CallerIds == {String(k) : k \in 1..(idCounter + 1)}

\* a lookup that ignores the cached results
WaitForStartNoCache(id) ==
  IF IsRunning(id)
  THEN [state |-> "pending", ids |-> <<id>>, value |-> <<>>]
  ELSE [state |-> "rejected", ids |-> <<id>>, value |-> <<"Sub-agent " \o id \o " not found">>]

\* waitFor(id) up to its return: the running agent's promise, the cached
\* result, or a throw
WaitForStart(id) ==
  IF IsRunning(id)
  THEN [state |-> "pending", ids |-> <<id>>, value |-> <<>>]
  ELSE IF CompletedAt(id) # {}
  THEN [state |-> "cached", ids |-> <<id>>, value |-> <<FindCompleted(id)>>]
  ELSE [state |-> "rejected", ids |-> <<id>>, value |-> <<"Sub-agent " \o id \o " not found">>]

WaitFor(id) ==
  /\ waitForCall.state = "idle"
  /\ nEvents < MaxEvents
  /\ nEvents' = nEvents + 1
  /\ waitForCall' = WaitForStart(id)
  /\ UNCHANGED <<idCounter, agents, completedResults, spawnLog, waitAllCall>>
  /\ UNCHANGED otherLoopVars

\* the awaited agent's promise resolves with the result its callback built
WaitForReturn ==
  /\ waitForCall.state = "pending"
  /\ CompletedAt(waitForCall.ids[1]) # {}
  /\ ~IsRunning(waitForCall.ids[1])
  /\ waitForCall' = [waitForCall EXCEPT !.state = "resolved",
                                        !.value = <<FindCompleted(waitForCall.ids[1])>>]
  /\ UNCHANGED <<idCounter, agents, completedResults, spawnLog, waitAllCall>>
  /\ UNCHANGED loopVars

\* only the first running agent is waited for
GatherFirst(as) == IF as = <<>> THEN <<>> ELSE <<as[1].id>>

\* the promises waitAll() gathers, Array.from(this.agents.values()), in the
\* map's insertion order
Gathered(as) == [k \in 1..Len(as) |-> as[k].id]

\* waitAll() up to its await of Promise.allSettled
WaitAll ==
  /\ waitAllCall.state = "idle"
  /\ nEvents < MaxEvents
  /\ nEvents' = nEvents + 1
  /\ waitAllCall' = [state |-> "pending", ids |-> Gathered(agents), value |-> <<>>]
  /\ UNCHANGED <<idCounter, agents, completedResults, spawnLog, waitForCall>>
  /\ UNCHANGED otherLoopVars

\* every gathered promise has settled (each is fulfilled: spawn()'s catch
\* turns a failure into a result): the values, in the order gathered
WaitAllReturn ==
  /\ waitAllCall.state = "pending"
  /\ \A k \in 1..Len(waitAllCall.ids) :
       CompletedAt(waitAllCall.ids[k]) # {} /\ ~IsRunning(waitAllCall.ids[k])
  /\ waitAllCall' =
       [waitAllCall EXCEPT !.state = "resolved",
                           !.value = [k \in 1..Len(waitAllCall.ids) |->
                                        FindCompleted(waitAllCall.ids[k])]]
  /\ UNCHANGED <<idCounter, agents, completedResults, spawnLog, waitForCall>>
  /\ UNCHANGED loopVars

\* getStatus()
GetStatus ==
  [running |-> [k \in 1..Len(agents) |-> agents[k].id], completed |-> completedResults]

\* loop.abort() of one child: its controller exists, its run() has started
AbortLoop(a) == [a EXCEPT !.aborted = TRUE]

\* abort(id) of the manager
AbortChild(id) ==
  /\ IsRunning(id)
  /\ nEvents < MaxEvents
  /\ nEvents' = nEvents + 1
  /\ agents' = [k \in 1..Len(agents) |->
                  IF agents[k].id = id THEN AbortLoop(agents[k]) ELSE agents[k]]
  /\ UNCHANGED <<idCounter, completedResults, spawnLog, waitForCall, waitAllCall>>
  /\ UNCHANGED otherLoopVars

\* abortAll()
AbortAll(as) == [k \in 1..Len(as) |-> AbortLoop(as[k])]

(***************************************************************************)
(* Control operations: abort, clearHistory, compact.                       *)
(***************************************************************************)
\* only the loop's own controller is aborted
AbortLocalOnly ==
  /\ nEvents < MaxEvents
  /\ nEvents' = nEvents + 1
  /\ aborted' = (abortController \/ aborted)
  /\ pcCompact' = IF pcCompact = "awaiting" THEN "doomed" ELSE pcCompact
  /\ UNCHANGED <<setupVars, subVars, messages, stats, abortController, pc, callVars,
                 batchVars, output, compactOut, runCleared>>

\* abort(): this.abortController?.abort(), a no-op before the first run,
\* then subAgentManager.abortAll()
Abort ==
  /\ nEvents < MaxEvents
  /\ nEvents' = nEvents + 1
  /\ aborted' = (abortController \/ aborted)
  /\ pcCompact' = IF pcCompact = "awaiting" THEN "doomed" ELSE pcCompact
  /\ agents' = AbortAll(agents)
  /\ UNCHANGED <<setupVars, messages, stats, abortController, pc, callVars, batchVars,
                 output, compactOut, runCleared>>
  /\ UNCHANGED <<idCounter, completedResults, spawnLog, waitForCall, waitAllCall>>

\* the tools a host registers: a replacement for a built-in tool and a tool
\* of its own, each in two versions
RegisteredNames == {"Read", "Custom"}

Registrations ==
  {[definition |-> "d1", execute |-> "e1"], [definition |-> "d2", execute |-> "e2"]}

\* registerTool(definition, execute)
RegisterTool(name, r) ==
  /\ nEvents < MaxEvents
  /\ nEvents' = nEvents + 1
  /\ tools' = Register(tools, name, r.definition, r.execute)
  /\ UNCHANGED <<config, streamVars, inputVars, emitted, subVars, messages, stats,
                 abortController, aborted, pc,
                 callVars, batchVars, output, compactVars, runCleared>>

ClearHistory ==
  /\ nEvents < MaxEvents
  /\ nEvents' = nEvents + 1
  /\ messages' = <<>>
  /\ stats' = ZeroStats
  /\ runCleared' = TRUE
  /\ tasks' = <<>>
  /\ taskIdCounter' = 0
  /\ UNCHANGED <<setupVars, subVars, abortController, aborted, pc, callVars, output,
                 compactVars>>
  /\ UNCHANGED <<toolUses, idx, toolResults, pending, reqLog, inflight, executed, denied,
                 invoked>>

\* the summaries the provider may answer with
Summaries == {"s"}

\* the first replacement message: the count is read after the await
SummaryMessage(oldCount, summary) ==
  TextMessage("user",
    "[Conversation summary from " \o String(oldCount) \o " messages]\n\n" \o summary)

AckMessage ==
  TextMessage("assistant",
    "Understood. I have the context from the conversation summary. How can I continue helping?")

\* compact() up to its await: createMessage is given abortController?.signal
CompactStart ==
  /\ pcCompact = "idle"
  /\ nEvents < MaxEvents
  /\ nEvents' = nEvents + 1
  /\ IF Len(messages) < 4
     THEN /\ compactOut' = "Nothing to compact"
          /\ pcCompact' = pcCompact
     ELSE /\ compactOut' = ""
          /\ pcCompact' = IF ~abortController THEN "detached"
                          ELSE IF aborted THEN "doomed" ELSE "awaiting"
  /\ UNCHANGED <<setupVars, subVars, messages, stats, abortController, aborted, pc, callVars,
                 batchVars, output, runCleared>>

\* the counters are reset along with the history
CompactDoneResetStats(summary) ==
  /\ pcCompact \in {"awaiting", "detached"}
  /\ pcCompact' = "idle"
  /\ compactOut' = "Compacted"
  /\ messages' = <<SummaryMessage(Len(messages), summary), AckMessage>>
  /\ stats' = ZeroStats
  /\ UNCHANGED <<setupVars, subVars, abortController, aborted, pc, callVars, batchVars,
                 output, nEvents, runCleared>>

\* the summary is put in front of the history instead of replacing it
CompactDonePrepend(summary) ==
  /\ pcCompact \in {"awaiting", "detached"}
  /\ pcCompact' = "idle"
  /\ compactOut' = "Compacted"
  /\ messages' = <<SummaryMessage(Len(messages), summary), AckMessage>> \o messages
  /\ UNCHANGED <<setupVars, subVars, stats, abortController, aborted, pc, callVars,
                 batchVars, output, nEvents, runCleared>>

\* createMessage resolves: the history is replaced by the two messages
CompactDone(summary) ==
  /\ pcCompact \in {"awaiting", "detached"}
  /\ pcCompact' = "idle"
  /\ compactOut' = "Compacted"
  /\ messages' = <<SummaryMessage(Len(messages), summary), AckMessage>>
  /\ UNCHANGED <<setupVars, subVars, stats, abortController, aborted, pc, callVars,
                 batchVars, output, nEvents, runCleared>>

\* the history is dropped before the summary is asked for, so that a
\* failure leaves it empty
CompactFailClears ==
  /\ pcCompact \in {"awaiting", "detached", "doomed"}
  /\ pcCompact' = "idle"
  /\ compactOut' = "failed"
  /\ messages' = <<>>
  /\ UNCHANGED <<setupVars, subVars, stats, abortController, aborted, pc, callVars,
                 batchVars, output, nEvents, runCleared>>

\* createMessage rejects: compact() rejects, nothing is replaced
CompactFail ==
  /\ pcCompact \in {"awaiting", "detached", "doomed"}
  /\ pcCompact' = "idle"
  /\ compactOut' = "failed"
  /\ UNCHANGED <<setupVars, subVars, messages, stats, abortController, aborted, pc, callVars,
                 batchVars, output, nEvents, runCleared>>

(***************************************************************************)
(* The providers' stream parsers (parseSSEStream).                        *)
(***************************************************************************)
Backends == {"anthropic", "openai", "gemini"}

\* one decoded event, by the members the parsers read: its discriminant,
\* the block or call it addresses, the kind of block, delta or part, its
\* payload, its stop or finish reason and its token counts
NoEv ==
  [type |-> "", index |-> 0, kind |-> "", text |-> "", id |-> "", name |-> "",
   args |-> "", finish |-> "", inTokens |-> 0, outTokens |-> 0]

\* the bytes of a response body, in pieces no read() can cut: the first
\* and the second half of a data line that carries an event, lines of
\* other kinds, and the line feed
Sym(part, e) == [part |-> part, ev |-> e]

NL == Sym("nl", NoEv)

\* `data: <JSON of e>\n`
EventLine(e) == <<Sym("head", e), Sym("tail", e), NL>>

\* a line that is no data line, a data line whose payload is no JSON, and
\* the stream-end sentinel `data: [DONE]`
NoiseLines == {<<Sym("comment", NoEv), NL>>, <<Sym("badjson", NoEv), NL>>,
               <<Sym("sentinel", NoEv), NL>>}

\* buffer.split("\n"): the complete lines, and the piece after the last
\* line feed
RECURSIVE SplitLines(_, _, _)
SplitLines(buf, cur, acc) ==
  IF buf = <<>> THEN [lines |-> acc, rest |-> cur]
  ELSE IF Head(buf) = NL THEN SplitLines(Tail(buf), <<>>, Append(acc, cur))
  ELSE SplitLines(Tail(buf), Append(cur, Head(buf)), acc)

\* what a line yields: nothing unless it starts with `data: `, is not the
\* sentinel and JSON.parse accepts its payload, which takes both halves
DecodeLine(line) ==
  IF /\ Len(line) = 2
     /\ line[1].part = "head"
     /\ line[2].part = "tail"
     /\ line[1].ev = line[2].ev
  THEN <<line[1].ev>>
  ELSE <<>>

(***************************************************************************)
(* Tool-argument text.                                                     *)
(***************************************************************************)
\* the fragments a tool call's argument text arrives in
JsonFragments == {"{\"k\":", "1}"}

\* JSON.parse on the texts the fragments can build: the one object, by its
\* keys; every other text is a SyntaxError
JsonValue == [text \in {"{}", "{\"k\":1}"} |-> IF text = "{}" THEN {} ELSE {"k"}]

IsJson(text) == text \in DOMAIN JsonValue

\* the empty argument set
EmptyInput == {}

(***************************************************************************)
(* Content blocks and maps.                                                *)
(***************************************************************************)
StreamBlock(type, text, id, name, input) ==
  [type |-> type, text |-> text, id |-> id, name |-> name, input |-> input]

StreamText(t) == StreamBlock("text", t, "", "", EmptyInput)

StreamThinking(t) == StreamBlock("thinking", t, "", "", EmptyInput)

StreamToolUse(id, name, input) == StreamBlock("tool_use", "", id, name, input)

\* Map.set, Map.delete
MapSet(f, i, v) == [j \in (DOMAIN f) \cup {i} |-> IF j = i THEN v ELSE f[j]]

MapDelete(f, i) == [j \in (DOMAIN f) \ {i} |-> f[j]]

EmptyMap == [j \in {} |-> ""]

\* map.get(i) ?? ""
GetOrEmpty(f, i) == IF i \in DOMAIN f THEN f[i] ELSE ""

\* the locals of parseSSEStream at its start
InitialParser(backend) ==
  [backend |-> backend, status |-> "reading", buffer |-> <<>>, content |-> <<>>,
   stopReason |-> "end_turn", inputTokens |-> 0, outputTokens |-> 0,
   blockTexts |-> EmptyMap, blockThinking |-> EmptyMap, blockToolJsons |-> EmptyMap,
   blockToolMeta |-> EmptyMap, textContent |-> "", toolCalls |-> <<>>,
   callbacks |-> <<>>, error |-> ""]

\* callbacks.onText?.(delta), callbacks.onThinking?.(delta)
Call(ps, cb, delta) == Append(ps.callbacks, [cb |-> cb, delta |-> delta])

(***************************************************************************)
(* AnthropicProvider.parseSSEStream: the switch on event.type.             *)
(***************************************************************************)
\* case "content_block_start"
AnthropicBlockStart(ps, e) ==
  CASE e.kind = "text" ->
         [ps EXCEPT !.blockTexts = MapSet(ps.blockTexts, e.index, e.text)]
    [] e.kind = "thinking" ->
         [ps EXCEPT !.blockThinking = MapSet(ps.blockThinking, e.index, e.text)]
    [] e.kind = "tool_use" ->
         [ps EXCEPT !.blockToolMeta =
                      MapSet(ps.blockToolMeta, e.index, [id |-> e.id, name |-> e.name]),
                    !.blockToolJsons = MapSet(ps.blockToolJsons, e.index, "")]
    [] OTHER -> ps

\* the text of a delta is accumulated but the callback is not called
AnthropicBlockDeltaSilent(ps, e) ==
  CASE e.kind = "text_delta" ->
         [ps EXCEPT !.blockTexts =
                      MapSet(ps.blockTexts, e.index, GetOrEmpty(ps.blockTexts, e.index) \o e.text)]
    [] e.kind = "thinking_delta" ->
         [ps EXCEPT !.blockThinking =
                      MapSet(ps.blockThinking, e.index,
                             GetOrEmpty(ps.blockThinking, e.index) \o e.text)]
    [] e.kind = "input_json_delta" ->
         [ps EXCEPT !.blockToolJsons =
                      MapSet(ps.blockToolJsons, e.index,
                             GetOrEmpty(ps.blockToolJsons, e.index) \o e.args)]
    [] OTHER -> ps

\* case "content_block_delta"
AnthropicBlockDelta(ps, e) ==
  CASE e.kind = "text_delta" ->
         [ps EXCEPT !.blockTexts =
                      MapSet(ps.blockTexts, e.index, GetOrEmpty(ps.blockTexts, e.index) \o e.text),
                    !.callbacks = Call(ps, "onText", e.text)]
    [] e.kind = "thinking_delta" ->
         [ps EXCEPT !.blockThinking =
                      MapSet(ps.blockThinking, e.index,
                             GetOrEmpty(ps.blockThinking, e.index) \o e.text),
                    !.callbacks = Call(ps, "onThinking", e.text)]
    [] e.kind = "input_json_delta" ->
         [ps EXCEPT !.blockToolJsons =
                      MapSet(ps.blockToolJsons, e.index,
                             GetOrEmpty(ps.blockToolJsons, e.index) \o e.args)]
    [] OTHER -> ps

\* try { input = JSON.parse(json) } catch { input = {} }
ParseOrEmpty(json) == IF IsJson(json) THEN JsonValue[json] ELSE EmptyInput

\* case "content_block_stop"
AnthropicBlockStop(ps, e) ==
  IF e.index \in DOMAIN ps.blockTexts
  THEN [ps EXCEPT !.content = Append(ps.content, StreamText(ps.blockTexts[e.index])),
                  !.blockTexts = MapDelete(ps.blockTexts, e.index)]
  ELSE IF e.index \in DOMAIN ps.blockThinking
  THEN [ps EXCEPT !.content = Append(ps.content, StreamThinking(ps.blockThinking[e.index])),
                  !.blockThinking = MapDelete(ps.blockThinking, e.index)]
  ELSE IF e.index \in DOMAIN ps.blockToolMeta
  THEN LET meta == ps.blockToolMeta[e.index]
           json == IF e.index \in DOMAIN ps.blockToolJsons
                   THEN ps.blockToolJsons[e.index] ELSE "{}"
       IN [ps EXCEPT !.content =
                       Append(ps.content, StreamToolUse(meta.id, meta.name, ParseOrEmpty(json))),
                     !.blockToolMeta = MapDelete(ps.blockToolMeta, e.index),
                     !.blockToolJsons = MapDelete(ps.blockToolJsons, e.index)]
  ELSE ps

\* the error event is taken for a stop: recorded as stop_reason, no throw
AnthropicErrorAsStop(ps, e) == [ps EXCEPT !.stopReason = "error"]

\* case "error": throw new Error(`Stream error: ${event.error.message}`)
AnthropicError(ps, e) ==
  [ps EXCEPT !.status = "failed", !.error = "Stream error: " \o e.text]

\* a default branch that throws
AnthropicDefaultThrows(ps, e) ==
  [ps EXCEPT !.status = "failed", !.error = "Unknown event: " \o e.type]

\* the switch has no default branch: the event is passed over
AnthropicDefault(ps, e) == ps

AnthropicEvent(ps, e) ==
  CASE e.type = "error" -> AnthropicError(ps, e)
    [] e.type = "message_start" -> [ps EXCEPT !.inputTokens = e.inTokens]
    [] e.type = "content_block_start" -> AnthropicBlockStart(ps, e)
    [] e.type = "content_block_delta" -> AnthropicBlockDelta(ps, e)
    [] e.type = "content_block_stop" -> AnthropicBlockStop(ps, e)
    [] e.type = "message_delta" ->
         [ps EXCEPT !.stopReason = e.finish, !.outputTokens = e.outTokens]
    [] OTHER -> AnthropicDefault(ps, e)

(***************************************************************************)
(* OpenAIProvider.parseSSEStream: one chunk, then the assembly.            *)
(***************************************************************************)
\* positions of the call with this index in toolCalls (a Map in insertion
\* order)
CallAt(calls, index) == {k \in 1..Len(calls) : calls[k].index = index}

\* one element of delta.tool_calls: the call is created on its first
\* fragment; id, name and argument text are taken when present
OpenAIToolCall(calls, e) ==
  LET known == IF CallAt(calls, e.index) = {}
               THEN Append(calls, [index |-> e.index, id |-> e.id, name |-> e.name,
                                   args |-> ""])
               ELSE calls
  IN [k \in 1..Len(known) |->
        IF known[k].index = e.index
        THEN [known[k] EXCEPT !.id = IF e.id # "" THEN e.id ELSE @,
                              !.name = IF e.name # "" THEN e.name ELSE @,
                              !.args = @ \o e.args]
        ELSE known[k]]

\* finish_reason, when the chunk carries one
OpenAIFinish(stopReason, reason) ==
  CASE reason = "tool_calls" -> "tool_use"
    [] reason = "length" -> "max_tokens"
    [] OTHER -> stopReason

\* a chunk without choices[0] is passed over; otherwise its text, tool
\* call, finish reason and usage are taken in this order
OpenAIEvent(ps, e) ==
  IF e.type # "chunk" THEN ps
  ELSE [ps EXCEPT
          !.textContent = @ \o e.text,
          !.callbacks = IF e.text # "" THEN Call(ps, "onText", e.text) ELSE @,
          !.toolCalls = IF e.kind = "tool_call" THEN OpenAIToolCall(@, e) ELSE @,
          !.stopReason = OpenAIFinish(@, e.finish),
          !.inputTokens = IF e.inTokens + e.outTokens > 0 THEN e.inTokens ELSE @,
          !.outputTokens = IF e.inTokens + e.outTokens > 0 THEN e.outTokens ELSE @]

\* if (textContent) content.push({ type: "text", text: textContent })
AssembledText(ps) == IF ps.textContent # "" THEN <<StreamText(ps.textContent)>> ELSE <<>>

\* the assembly after the last read: the text, then the calls in the
\* map's order, each with JSON.parse(tc.args || "{}"), which throws on a
\* text that is no JSON
OpenAIAssemble(ps) ==
  IF \E k \in 1..Len(ps.toolCalls) : ps.toolCalls[k].args # "" /\ ~IsJson(ps.toolCalls[k].args)
  THEN [ps EXCEPT !.status = "failed", !.error = "SyntaxError"]
  ELSE [ps EXCEPT
          !.status = "returned",
          !.content =
             AssembledText(ps)
             \o [k \in 1..Len(ps.toolCalls) |->
                   StreamToolUse(ps.toolCalls[k].id, ps.toolCalls[k].name,
                                 IF ps.toolCalls[k].args = "" THEN EmptyInput
                                 ELSE JsonValue[ps.toolCalls[k].args])]]

(***************************************************************************)
(* GeminiProvider.parseSSEStream.                                          *)
(***************************************************************************)
\* the id made up for a call, `call_${Date.now()}_${random}`: written here
\* by the call's place among the calls of the stream
GeminiCallId(calls) == "call_" \o String(Len(calls) + 1)

\* one part of candidates[0].content.parts, then finishReason and
\* usageMetadata; functionCall.args arrives as an object and is written
\* here by its JSON text, a missing args being {}
GeminiEvent(ps, e) ==
  IF e.type # "candidate" THEN ps
  ELSE [ps EXCEPT
          !.textContent = @ \o e.text,
          !.callbacks = IF e.text # "" THEN Call(ps, "onText", e.text) ELSE @,
          !.toolCalls =
             IF e.kind = "functionCall"
             THEN Append(@, [index |-> 0, id |-> GeminiCallId(@), name |-> e.name,
                             args |-> e.args])
             ELSE @,
          !.stopReason = IF e.finish = "MAX_TOKENS" THEN "max_tokens"
                         ELSE IF e.kind = "functionCall" THEN "tool_use" ELSE @,
          !.inputTokens = IF e.inTokens + e.outTokens > 0 THEN e.inTokens ELSE @,
          !.outputTokens = IF e.inTokens + e.outTokens > 0 THEN e.outTokens ELSE @]

GeminiAssemble(ps) ==
  [ps EXCEPT
     !.status = "returned",
     !.content =
        AssembledText(ps)
        \o [k \in 1..Len(ps.toolCalls) |->
              StreamToolUse(ps.toolCalls[k].id, ps.toolCalls[k].name,
                            IF ps.toolCalls[k].args = "" THEN EmptyInput
                            ELSE JsonValue[ps.toolCalls[k].args])]]

(***************************************************************************)
(* The read loop common to the three parsers.                              *)
(***************************************************************************)
HandleEvent(ps, e) ==
  CASE ps.backend = "anthropic" -> AnthropicEvent(ps, e)
    [] ps.backend = "openai" -> OpenAIEvent(ps, e)
    [] ps.backend = "gemini" -> GeminiEvent(ps, e)

\* one pass of `for (const line of lines)`
ProcessLine(ps, line) ==
  IF DecodeLine(line) = <<>> THEN ps ELSE HandleEvent(ps, DecodeLine(line)[1])

\* the for loop; a throw leaves it, and the function
RECURSIVE ProcessLines(_, _)
ProcessLines(ps, lines) ==
  IF lines = <<>> \/ ps.status = "failed" THEN ps
  ELSE ProcessLines(ProcessLine(ps, Head(lines)), Tail(lines))

\* the chunk is split on its own, what the last read left over is lost
FeedNoCarry(ps, chunk) ==
  LET split == SplitLines(chunk, <<>>, <<>>)
  IN ProcessLines([ps EXCEPT !.buffer = split.rest], split.lines)

\* one read(): buffer += chunk, the complete lines are processed, the
\* trailing partial line is kept for the next read
Feed(ps, chunk) ==
  LET split == SplitLines(ps.buffer \o chunk, <<>>, <<>>)
  IN ProcessLines([ps EXCEPT !.buffer = split.rest], split.lines)

\* read() reports done: the loop is left and the result is returned
Finish(ps) ==
  CASE ps.backend = "anthropic" -> [ps EXCEPT !.status = "returned"]
    [] ps.backend = "openai" -> OpenAIAssemble(ps)
    [] ps.backend = "gemini" -> GeminiAssemble(ps)

(***************************************************************************)
(* The backends' streams.                                                  *)
(***************************************************************************)
MessageStart == [NoEv EXCEPT !.type = "message_start", !.inTokens = 2]

BlockStart(i, k) ==
  [NoEv EXCEPT !.type = "content_block_start", !.index = i, !.kind = k,
               !.id = IF k = "tool_use" THEN "toolu_" \o String(i) ELSE "",
               !.name = IF k = "tool_use" THEN "Read" ELSE ""]

BlockDelta(i, k, payload) ==
  [NoEv EXCEPT !.type = "content_block_delta", !.index = i, !.kind = k,
               !.text = IF k = "input_json_delta" THEN "" ELSE payload,
               !.args = IF k = "input_json_delta" THEN payload ELSE ""]

BlockStop(i) == [NoEv EXCEPT !.type = "content_block_stop", !.index = i]

MessageDelta(reason) ==
  [NoEv EXCEPT !.type = "message_delta", !.finish = reason, !.outTokens = 1]

ErrorEvent == [NoEv EXCEPT !.type = "error", !.text = "Overloaded"]

Ping == [NoEv EXCEPT !.type = "ping"]

\* the stop reasons of the Messages API the loop knows, and one it does not
AnthropicStopReasons == {"tool_use", "max_tokens", "stop_sequence"}

\* the deltas a block of each kind is streamed in
DeltasOf(start) ==
  CASE start.kind = "text" -> {BlockDelta(start.index, "text_delta", "a")}
    [] start.kind = "thinking" -> {BlockDelta(start.index, "thinking_delta", "h")}
    [] start.kind = "tool_use" ->
         {BlockDelta(start.index, "input_json_delta", f) : f \in JsonFragments}

OfType(evs, type) == SelectSeq(evs, LAMBDA e : e.type = type)

\* what the Messages API may write next: blocks one after the other, each
\* started, streamed and stopped, then the message delta; an error and a
\* ping may come anywhere, once each
AnthropicNext(evs) ==
  LET starts == OfType(evs, "content_block_start")
      stops == OfType(evs, "content_block_stop")
      ended == OfType(evs, "message_delta") # <<>>
  IN (IF evs = <<>> THEN {MessageStart} ELSE {})
     \cup (IF OfType(evs, "error") = <<>> THEN {ErrorEvent} ELSE {})
     \cup (IF OfType(evs, "ping") = <<>> THEN {Ping} ELSE {})
     \cup (IF ended THEN {}
           ELSE IF Len(starts) > Len(stops)
           THEN DeltasOf(starts[Len(starts)]) \cup {BlockStop(starts[Len(starts)].index)}
           ELSE {MessageDelta(r) : r \in AnthropicStopReasons}
                \cup (IF Len(starts) < MaxBlocks
                      THEN {BlockStart(Len(starts), k) : k \in {"text", "thinking", "tool_use"}}
                      ELSE {}))

TextChunk == [NoEv EXCEPT !.type = "chunk", !.text = "a"]

\* the first fragment of a call carries its id and name, the later ones
\* argument text only
CallChunk(i, first, fragment) ==
  [NoEv EXCEPT !.type = "chunk", !.kind = "tool_call", !.index = i,
               !.id = IF first THEN "call_" \o String(i) ELSE "",
               !.name = IF first THEN "Read" ELSE "",
               !.args = fragment]

FinishChunk(reason) == [NoEv EXCEPT !.type = "chunk", !.finish = reason]

\* the closing chunk of a stream with usage reporting: no choices
UsageChunk == [NoEv EXCEPT !.type = "usage", !.inTokens = 2, !.outTokens = 1]

OpenAIFinishReasons == {"stop", "tool_calls", "length", "content_filter"}

\* what the Chat Completions API may write next: text and fragments of
\* tool calls, then the finish reason and the usage
OpenAINext(evs) ==
  LET calls == {e.index : e \in {evs[k] : k \in 1..Len(evs)} \cap
                                 {CallChunk(i, TRUE, f) : i \in 0..(MaxBlocks - 1),
                                                          f \in JsonFragments \cup {""}}}
      ended == \E k \in 1..Len(evs) : evs[k].finish # ""
  IN (IF OfType(evs, "usage") = <<>> THEN {UsageChunk} ELSE {})
     \cup (IF ended THEN {}
           ELSE {TextChunk}
                \cup {FinishChunk(r) : r \in OpenAIFinishReasons}
                \cup {CallChunk(i, FALSE, f) : i \in calls, f \in JsonFragments}
                \cup (IF Cardinality(calls) < MaxBlocks
                      THEN {CallChunk(Cardinality(calls), TRUE, f) : f \in {"", "{\"k\":"}}
                      ELSE {}))

TextPart == [NoEv EXCEPT !.type = "candidate", !.text = "a"]

FunctionCallPart(args) ==
  [NoEv EXCEPT !.type = "candidate", !.kind = "functionCall", !.name = "Read", !.args = args]

FinishCandidate(reason) ==
  [NoEv EXCEPT !.type = "candidate", !.finish = reason, !.inTokens = 2, !.outTokens = 1]

GeminiFinishReasons == {"STOP", "MAX_TOKENS", "SAFETY"}

\* what the Gemini API may write next: text parts and function calls in
\* any order, then the finish reason
GeminiNext(evs) ==
  IF \E k \in 1..Len(evs) : evs[k].finish # "" THEN {}
  ELSE {TextPart}
       \cup {FinishCandidate(r) : r \in GeminiFinishReasons}
       \cup (IF Len(SelectSeq(evs, LAMBDA e : e.kind = "functionCall")) < MaxBlocks
             THEN {FunctionCallPart(args) : args \in {"", "{\"k\":1}"}}
             ELSE {})

NextEvents(backend, evs) ==
  CASE backend = "anthropic" -> AnthropicNext(evs)
    [] backend = "openai" -> OpenAINext(evs)
    [] backend = "gemini" -> GeminiNext(evs)
    [] OTHER -> {}

\* the events of the lines written so far
RECURSIVE EventsOf(_)
EventsOf(lines) ==
  IF lines = <<>> THEN <<>>
  ELSE DecodeLine(SubSeq(Head(lines), 1, Len(Head(lines)) - 1)) \o EventsOf(Tail(lines))

\* the lines a backend may write next: an event its API allows, or, once
\* per stream, a line that carries none
NextLines(backend, lines) ==
  {EventLine(e) : e \in NextEvents(backend, EventsOf(lines))}
  \cup (IF \E k \in 1..Len(lines) : lines[k] \in NoiseLines THEN {} ELSE NoiseLines)

(***************************************************************************)
(* One streaming call.                                                     *)
(***************************************************************************)
\* createMessageStream() up to the first read() of parseSSEStream
CreateMessageStream(backend) ==
  /\ parser.status = "idle"
  /\ parser' = InitialParser(backend)
  /\ UNCHANGED <<sent, wire, loopOwnVars, subVars>>

\* the backend writes one more line
Emit(line) ==
  /\ parser.status = "reading"
  /\ Len(sent) < MaxLines
  /\ Len(wire) <= MaxUnread
  /\ sent' = Append(sent, line)
  /\ wire' = wire \o line
  /\ UNCHANGED <<parser, loopOwnVars, subVars>>

\* reader.read() delivers the next n pieces as one chunk
Read(n) ==
  /\ parser.status = "reading"
  /\ n \in 1..Len(wire)
  /\ parser' = Feed(parser, SubSeq(wire, 1, n))
  /\ wire' = SubSeq(wire, n + 1, Len(wire))
  /\ UNCHANGED <<sent, loopOwnVars, subVars>>

\* reader.read() reports done: the body is closed and every byte was read
EndOfStream ==
  /\ parser.status = "reading"
  /\ wire = <<>>
  /\ parser' = Finish(parser)
  /\ UNCHANGED <<sent, wire, loopOwnVars, subVars>>

(***************************************************************************)
(* ShiroProvider: terminal input.                                          *)
(***************************************************************************)
\* who asks the user: the AskUserQuestion executor of the parent loop, or
\* that of a sub-task, which is given the same provider
Askers == {"parent", "child"}

\* the lines the user may submit
UserLines == {"a", "b"}

\* a promise readFromUser returned that nothing has resolved yet
PendingRead(caller) == [caller |-> caller, value |-> <<>>]

\* readFromUser(prompt), called by executeAskUser: a new promise is
\* returned and its resolve function stored in the one resolver field
ReadFromUser(caller) ==
  /\ nEvents < MaxEvents
  /\ nEvents' = nEvents + 1
  /\ reads' = Append(reads, PendingRead(caller))
  /\ userInputResolver' = Len(reads) + 1
  /\ UNCHANGED <<subVars, streamVars, emitted, taskVars>>
  /\ UNCHANGED <<config, messages, stats, tools, request, invoked, abortController, aborted,
                 pc, attempts, retryLog, lastFailure, toolUses, idx, toolResults, pending,
                 reqLog, inflight, executed, denied, output, pcCompact, compactOut,
                 runCleared>>

\* resolveUserInput(input): the stored resolver, if any, is taken out of
\* the field and called
ResolveUserInput(input) ==
  /\ nEvents < MaxEvents
  /\ nEvents' = nEvents + 1
  /\ IF userInputResolver # 0
     THEN /\ reads' = [reads EXCEPT ![userInputResolver].value = <<input>>]
          /\ userInputResolver' = 0
     ELSE UNCHANGED inputVars
  /\ UNCHANGED <<subVars, streamVars, emitted, taskVars>>
  /\ UNCHANGED <<config, messages, stats, tools, request, invoked, abortController, aborted,
                 pc, attempts, retryLog, lastFailure, toolUses, idx, toolResults, pending,
                 reqLog, inflight, executed, denied, output, pcCompact, compactOut,
                 runCleared>>

(***************************************************************************)
(* Specifications.                                                         *)
(***************************************************************************)
\* failures that end the run at once
TerminalStatuses == FailureStatuses \ RETRYABLE_STATUS

\* the loop with its tools and the control operations; the provider's
\* failures are the ones no retry follows
Next ==
  \/ Run
  \/ \E shape \in ResponseShapes, usage \in Usages : ProviderSuccess(shape, usage)
  \/ \E status \in TerminalStatuses : ProviderFail(status)
  \/ \E allowed \in BOOLEAN : PermissionDecision(allowed)
  \/ ToolReturn
  \/ Abort
  \/ ClearHistory
  \/ CompactStart
  \/ \E summary \in Summaries : CompactDone(summary)
  \/ CompactFail

Spec == Init /\ [][Next]_vars

\* the responses drawn where the retry policy is explored
RetryShapes == {<<T("x"), T("y")>>, <<U("Read")>>}

\* the loop with every failure status the provider may answer with
RetryNext ==
  \/ Run
  \/ \E shape \in RetryShapes, usage \in Usages : ProviderSuccess(shape, usage)
  \/ \E status \in FailureStatuses : ProviderFail(status)
  \/ BackoffElapsed
  \/ ToolReturn
  \/ Abort

RetrySpec == Init /\ [][RetryNext]_vars


\* the operations of the sub-agent manager
SubNext ==
  \/ Spawn
  \/ \E id \in CallerIds, outcome \in ChildOutcomes : ChildRunEnds(id, outcome)
  \/ \E id \in CallerIds : ChildRecorded(id)
  \/ \E id \in CallerIds : WaitFor(id)
  \/ WaitForReturn
  \/ WaitAll
  \/ WaitAllReturn
  \/ \E id \in CallerIds : AbortChild(id)

\* one configuration: a parent loop with the default budget
SubInit == Init /\ config = [maxTurns |-> Unset, hasPermissionHook |-> FALSE]

SubSpec == SubInit /\ [][SubNext]_vars

\* a loop that runs, spawns sub-agents and is aborted
AbortNext ==
  \/ Run
  \/ \E shape \in RetryShapes, usage \in Usages : ProviderSuccess(shape, usage)
  \/ ToolReturn
  \/ Abort
  \/ Spawn
  \/ \E id \in CallerIds, outcome \in ChildOutcomes : ChildRunEnds(id, outcome)
  \/ \E id \in CallerIds : ChildRecorded(id)

AbortSpec == SubInit /\ [][AbortNext]_vars

\* a loop whose history is never cleared nor compacted
FreshNext ==
  \/ Run
  \/ \E shape \in ResponseShapes, usage \in Usages : ProviderSuccess(shape, usage)
  \/ \E status \in TerminalStatuses : ProviderFail(status)
  \/ \E allowed \in BOOLEAN : PermissionDecision(allowed)
  \/ ToolReturn
  \/ Abort

FreshSpec == Init /\ [][FreshNext]_vars

\* parent budgets around the cap a child's budget is clamped to
ParentBudgets == {Unset, 0, 1, 2, 19, 20, 21, 50}

\* tasks spawned by loops of every budget
BudgetNext ==
  \/ Spawn
  \/ \E k \in 1..MaxSpawns, outcome \in ChildOutcomes : ChildRunEnds(String(k), outcome)
  \/ \E k \in 1..MaxSpawns : ChildRecorded(String(k))

BudgetSpec == InitWith(ParentBudgets) /\ [][BudgetNext]_vars

\* a parent loop of budget 1 or of the default budget that runs, registers
\* tools and spawns children, which take turns of their own
IsolationNext ==
  \/ Run
  \/ \E shape \in RetryShapes, usage \in Usages : ProviderSuccess(shape, usage)
  \/ ToolReturn
  \/ ClearHistory
  \/ \E r \in Registrations : RegisterTool("Custom", r)
  \/ Spawn
  \/ \E id \in CallerIds, usage \in Usages : ChildTurn(id, usage, "Read")
  \/ \E id \in CallerIds, outcome \in ChildOutcomes : ChildRunEnds(id, outcome)
  \/ \E id \in CallerIds : ChildRecorded(id)

IsolationInit == InitWith({Unset, 1}) /\ ~config.hasPermissionHook

IsolationSpec == IsolationInit /\ [][IsolationNext]_vars

\* the responses drawn where the registry is explored: requests for the
\* replaceable built-in tool and for the host's tool
RegistryShapes == {<<T("x")>>, <<U("Read")>>, <<U("Custom"), U("Read")>>}

\* a loop whose host registers tools between and during runs
RegistryNext ==
  \/ Run
  \/ \E shape \in RegistryShapes, usage \in Usages : ProviderSuccess(shape, usage)
  \/ ToolReturn
  \/ \E name \in RegisteredNames, r \in Registrations : RegisterTool(name, r)

RegistrySpec == IsolationInit /\ [][RegistryNext]_vars

\* one streaming call of each provider, its body cut into chunks every way
StreamNext ==
  \/ \E backend \in Backends : CreateMessageStream(backend)
  \/ \E line \in NextLines(parser.backend, sent) : Emit(line)
  \/ \E n \in 1..(2 * MaxUnread) : Read(n)
  \/ EndOfStream

StreamSpec == SubInit /\ [][StreamNext]_vars

\* the responses drawn where the task tools are explored
TaskShapes ==
  {<<T("x")>>, <<U("TaskCreate")>>, <<U("TaskUpdate")>>, <<U("TaskCreate"), U("TaskUpdate")>>,
   <<U("Read")>>}

\* a loop of budget 1 or 2 whose runs call the task tools and whose host
\* replaces a task tool, clears and compacts the history
TaskNext ==
  \/ Run
  \/ \E shape \in TaskShapes, usage \in Usages : ProviderSuccess(shape, usage)
  \/ ToolReturn
  \/ \E r \in {[definition |-> "d1", execute |-> "e1"]} : RegisterTool("TaskCreate", r)
  \/ ClearHistory
  \/ CompactStart
  \/ \E summary \in Summaries : CompactDone(summary)
  \/ CompactFail

TaskInit == InitWith({1, 2}) /\ ~config.hasPermissionHook

TaskSpec == TaskInit /\ [][TaskNext]_vars

\* the loops ask the user and the terminal submits lines, in any order
InputNext ==
  \/ \E caller \in Askers : ReadFromUser(caller)
  \/ \E input \in UserLines : ResolveUserInput(input)

InputSpec == SubInit /\ [][InputNext]_vars

\* the responses drawn where the permission gate is explored
GateShapes == {<<T("x")>>, <<U("Bash")>>, <<U("Read"), U("Write")>>}

\* the tools a child's provider may request
ChildRequests == {"Read", "Bash"}

\* a loop with a permission hook that runs gated tools and spawns children
\* which request gated tools of their own
GateNext ==
  \/ Run
  \/ \E shape \in GateShapes, usage \in Usages : ProviderSuccess(shape, usage)
  \/ \E allowed \in BOOLEAN : PermissionDecision(allowed)
  \/ ToolReturn
  \/ Spawn
  \/ \E id \in CallerIds, usage \in Usages, name \in ChildRequests : ChildTurn(id, usage, name)

GateInit == InitWith({Unset}) /\ config.hasPermissionHook

GateSpec == GateInit /\ [][GateNext]_vars
(***************************************************************************)
(* Properties of the turn loop.                                            *)
(***************************************************************************)
Last(s) == s[Len(s)]

HasToolUses(m) == m.role = "assistant" /\ \E k \in 1..Len(m.content) : IsToolUse(m.content[k])

\* the positions of the tool-use blocks of an assistant message, in order
UsePositions(m) == {k \in 1..Len(m.content) : IsToolUse(m.content[k])}

\* the j-th tool-use block of message m
NthUse(m, j) ==
  m.content[CHOOSE k \in UsePositions(m) :
              Cardinality({p \in UsePositions(m) : p <= k}) = j]

\* message r answers message m: one result block per tool use, same order,
\* same ids
Answers(r, m) ==
  /\ r.role = "user"
  /\ Len(r.content) = Cardinality(UsePositions(m))
  /\ \A j \in 1..Len(r.content) :
       /\ r.content[j].type = "tool_result"
       /\ r.content[j].id = NthUse(m, j).id

\* C1: every assistant message holding tool-use blocks is immediately
\* followed by one user message whose tool_result blocks match them one to
\* one (count, order, ids); only while the batch is still being processed,
\* and so before run() calls the provider again, can it be the last message.
C1_ToolResultsPaired ==
  \A i \in 1..Len(messages) :
    HasToolUses(messages[i]) =>
      IF i < Len(messages)
      THEN Answers(messages[i + 1], messages[i])
      ELSE pc \in {"perm", "exec"}

\* a two-request batch, its first request denied and its second executed,
\* answered in the conversation while the next provider call is in flight
C1_Witness ==
  /\ pc = "calling"
  /\ Len(messages) >= 3
  /\ HasToolUses(messages[Len(messages) - 1])
  /\ Len(Last(messages).content) = 2
  /\ Last(messages).content[1].text = PermissionDeniedText
  /\ Last(messages).content[2].text = "ok"

\* C2: the requests of a batch are processed one at a time in the order
\* received: while request idx awaits its permission or its executor the
\* results of requests 1..idx-1, and only those, are recorded in order; at
\* most one executor is in flight, and it is the current request's; while
\* the provider is being called no batch is open and no executor runs.
C2_Sequential ==
  /\ Cardinality(inflight) <= 1
  /\ pc \in {"perm", "exec"} =>
       /\ idx \in 1..Len(toolUses)
       /\ Len(toolResults) = idx - 1
       /\ \A k \in 1..(idx - 1) : toolResults[k].id = toolUses[k].id
       /\ inflight \subseteq {toolUses[idx].id}
  /\ pc = "perm" => inflight = {}
  /\ pc \in {"calling", "backoff"} => toolUses = <<>> /\ inflight = {}

\* the second request's executor is running, the first one's result recorded
C2_Witness ==
  /\ pc = "exec"
  /\ idx = 2
  /\ Len(toolResults) = 1
  /\ toolResults[1].text = "ok"
  /\ inflight = {toolUses[2].id}

\* a result block for `id` flagged as an error, with the denial text
IsDenialOf(b, id) ==
  b.type = "tool_result" /\ b.id = id /\ b.is_error /\ b.text = "Permission denied by user."

\* the step in which the hook denies a request: the denial is recorded for
\* that request's id, in the open batch or in the message the batch is
\* pushed as, no executor is started for it, and the loop goes on to the
\* next request if there is one
C3_DenialStep ==
  \A id \in denied' \ denied :
    /\ id = toolUses[idx].id
    /\ id \notin executed' \cup inflight'
    /\ executed' \ executed \subseteq {toolUses[k].id : k \in (idx + 1)..Len(toolUses)}
    /\ IF idx < Len(toolUses)
       THEN /\ toolResults' = Append(toolResults, Last(toolResults'))
            /\ IsDenialOf(Last(toolResults'), id)
            /\ idx' = idx + 1
            /\ pc' \in {"perm", "exec"}
       ELSE /\ Last(messages').role = "user"
            /\ Last(messages').content = Append(toolResults, Last(Last(messages').content))
            /\ IsDenialOf(Last(Last(messages').content), id)
            /\ pc' \in {"calling", "maxturns"}

\* C3: a gated request the permission hook denies never has its executor
\* invoked; the result recorded for it is the error block "Permission denied
\* by user.", and the loop goes on with the rest of the batch.
C3_DeniedNeverExecuted ==
  /\ [](denied \cap executed = {} /\ (denied # {} => config.hasPermissionHook))
  /\ [][C3_DenialStep]_vars

\* the first request was denied and the loop went on to run the second
C3_Witness ==
  /\ pc = "exec"
  /\ idx = 2
  /\ toolUses[1].id \in denied
  /\ IsDenialOf(toolResults[1], toolUses[1].id)
  /\ toolUses[2].id \in executed

\* C4: stats.turns never exceeds maxTurns (default 50); a provider call is
\* in progress only while turns < maxTurns; a run that ends on the budget
\* returns the sentinel with turns = maxTurns (so with maxTurns = 1 after
\* exactly one turn), unless clearHistory() has reset the stats since.
C4_TurnBudget ==
  /\ stats.turns <= (IF config.maxTurns = Unset THEN 50 ELSE config.maxTurns)
  /\ pc \in {"calling", "backoff"} =>
       stats.turns < (IF config.maxTurns = Unset THEN 50 ELSE config.maxTurns)
  /\ pc = "maxturns" =>
       /\ output = "[Spirit: max turns reached]"
       /\ ~runCleared => stats.turns = config.maxTurns

\* maxTurns = 1, the one response asked for a tool: sentinel after one turn
C4_Witness ==
  /\ config.maxTurns = 1
  /\ pc = "maxturns"
  /\ stats.turns = 1
  /\ stats.toolCalls = 1
  /\ Len(messages) = 3
  /\ output = MaxTurnsSentinel

\* the text blocks of a content list, concatenated first to last
RECURSIVE TextUpTo(_, _)
TextUpTo(content, n) ==
  IF n = 0 THEN ""
  ELSE TextUpTo(content, n - 1) \o (IF content[n].type = "text" THEN content[n].text ELSE "")

\* the step in which a response without tool use arrives
C5_CompletionStep ==
  (pc = "calling" /\ pc' = "completed") =>
    /\ Len(messages') = Len(messages) + 1
    /\ Last(messages').role = "assistant"
    /\ ~HasToolUses(Last(messages'))
    /\ output' = TextUpTo(Last(messages').content, Len(Last(messages').content))
    /\ UNCHANGED <<toolUses, toolResults, executed, inflight>>
    /\ stats'.toolCalls = stats.toolCalls

\* once completed, only a new run() leaves that state
C5_StaysCompleted ==
  (pc = "completed" /\ pc' # "completed") =>
    /\ messages' = Append(messages, TextMessage("user", "u"))
    /\ pc' \in {"calling", "maxturns"}
    /\ stats' = stats

\* C5: a response without tool-use blocks makes run() return its text
\* blocks concatenated in order: no tool runs, no tool-result message is
\* appended, and that run calls the provider no more.
C5_TextOnlyCompletes ==
  /\ [][C5_CompletionStep]_vars
  /\ [][C5_StaysCompleted]_vars
  /\ [](pc = "completed" => toolUses = <<>> /\ inflight = {})

\* the response <<"x", "y">> completed the run
C5_Witness ==
  /\ pc = "completed"
  /\ output = "xy"
  /\ Last(messages).role = "assistant"
  /\ Len(Last(messages).content) = 2

\* an error block for `id` with a message saying what failed
IsFailureOf(b, id) ==
  /\ b.type = "tool_result"
  /\ b.id = id
  /\ b.is_error
  /\ b.text \in {"Error: boom", "Error: Unknown tool: Ghost"}

\* the step in which an awaited tool call throws
C6_FailureStep ==
  (pc = "exec" /\ pending \in {"throw", "unknown"} /\ <<idx, toolUses>>' # <<idx, toolUses>>) =>
    /\ pc' # "errored"
    /\ IF idx < Len(toolUses)
       THEN /\ toolResults' = Append(toolResults, Last(toolResults'))
            /\ IsFailureOf(Last(toolResults'), toolUses[idx].id)
            /\ idx' = idx + 1
            /\ toolUses' = toolUses
            /\ pc' \in {"perm", "exec"}
       ELSE /\ Last(messages').role = "user"
            /\ Last(messages').content = Append(toolResults, Last(Last(messages').content))
            /\ IsFailureOf(Last(Last(messages').content), toolUses[idx].id)
            /\ messages' = Append(messages, Last(messages'))
            /\ pc' \in {"calling", "maxturns"}

ToolAwaitEnds == ToolReturn

\* C7: a tool executor that never completes does not hang the loop: while
\* run() awaits a tool call, a step that records the call's result (the
\* executor settling, or the timeout) is always possible.
C7_NoHang == pc = "exec" => ENABLED ToolAwaitEnds

(***************************************************************************)
(* Properties of the retry wrapper.                                        *)
(***************************************************************************)
\* the retries recorded for the current logical call
RetriesMade == Len(retryLog) \div 2

\* C8: one logical provider call is attempted at most 4 times; another
\* attempt follows a failure only when its status is one of 429, 500, 502,
\* 503, 529; a fourth attempt failing with such a status ends the run with
\* the failure, with three retries made and no fifth attempt.
C8_AtMostFourAttempts ==
  /\ attempts <= 4
  /\ attempts = 0 => retryLog = <<>> /\ pc \notin {"calling", "backoff", "errored"}
  /\ attempts > 0 =>
       RetriesMade = (IF pc = "backoff" THEN attempts ELSE attempts - 1)
  /\ pc = "backoff" =>
       /\ lastFailure \in {<<429>>, <<500>>, <<502>>, <<503>>, <<529>>}
       /\ attempts <= 3
  /\ (pc = "errored" /\ lastFailure \in {<<429>>, <<500>>, <<502>>, <<503>>, <<529>>}) =>
       /\ attempts = 4
       /\ RetriesMade = 3

\* four attempts failed, the last with 503: the run ended with that failure
C8_Witness ==
  /\ pc = "errored"
  /\ attempts = 4
  /\ lastFailure = <<503>>
  /\ RetriesMade = 3

\* the step in which an attempt fails with a status outside the retryable
\* set, or with none
C9_FailureStep ==
  (pc = "calling" /\ pc' \in {"backoff", "errored"}
     /\ lastFailure' \notin {<<429>>, <<500>>, <<502>>, <<503>>, <<529>>}) =>
    /\ pc' = "errored"
    /\ retryLog' = retryLog
    /\ attempts' = attempts

\* C9: a failure whose status is not retryable (400, 401) or that carries no
\* status is never retried: the attempt that met it is the last one, no
\* notification and no wait follow, and the run ends with the failure; met
\* by the first attempt, exactly one attempt is made.
C9_NonRetryableSurfaces ==
  /\ [][C9_FailureStep]_vars
  /\ [][(pc = "errored" /\ pc' # "errored") =>
          (attempts' = 1 /\ retryLog' = <<>> /\ pc' \in {"calling", "maxturns"})]_vars
  /\ []((pc \in {"calling", "backoff", "errored"} /\ lastFailure # <<>>
           /\ lastFailure \notin {<<429>>, <<500>>, <<502>>, <<503>>, <<529>>}) =>
          (pc = "errored" /\ Len(retryLog) = 2 * (attempts - 1)))

\* the first attempt met a 401: one attempt, no retry, the run failed
C9_Witness ==
  /\ pc = "errored"
  /\ lastFailure = <<401>>
  /\ attempts = 1
  /\ retryLog = <<>>

\* the wait before retry k, in milliseconds
ExpectedDelay(k) == CASE k = 1 -> 1000 [] k = 2 -> 2000 [] k = 3 -> 4000

\* C10: retry k is announced to the observer and then waited for, in that
\* order, the wait being 1000 * 2^(k-1) ms (1000, 2000, 4000); a run whose
\* first attempt failed with 503 and whose second succeeded has made
\* exactly one retry, after a wait of 1000 ms.
C10_BackoffSchedule ==
  /\ Len(retryLog) % 2 = 0
  /\ \A k \in 1..RetriesMade :
       /\ retryLog[2 * k - 1] = [kind |-> "notify", retry |-> k, ms |-> ExpectedDelay(k)]
       /\ retryLog[2 * k] = [kind |-> "wait", retry |-> k, ms |-> ExpectedDelay(k)]
  /\ (pc \in {"completed", "perm", "exec"} /\ attempts = 2) => RetriesMade = 1
  /\ pc \in {"completed", "perm", "exec"} => RetriesMade = attempts - 1

\* 503, then a response without tool use: completed on the second attempt
C10_Witness ==
  /\ pc = "completed"
  /\ output = "xy"
  /\ attempts = 2
  /\ lastFailure = <<503>>
  /\ retryLog = <<[kind |-> "notify", retry |-> 1, ms |-> 1000],
                  [kind |-> "wait", retry |-> 1, ms |-> 1000]>>

(***************************************************************************)
(* Properties of run()'s result, the statistics and the control            *)
(* operations.                                                             *)
(***************************************************************************)
\* run() has ended: by returning text, by returning the sentinel, or by
\* rejecting with the provider's failure
RunEnded == pc \in {"completed", "maxturns", "errored"}

\* C11: a run that ends has returned a string: its text, the truncation
\* sentinel or an error string; a provider failure does not end it by
\* rejecting the call.
C11_RunReturnsString == RunEnded => pc # "errored"

StatsFields == {"inputTokens", "outputTokens", "totalTokens", "turns", "toolCalls"}

\* a step in which some counter decreases is a clearHistory(): the history
\* is emptied and every counter is zero
C12_Step ==
  (\E f \in StatsFields : stats'[f] < stats[f]) =>
    /\ stats' = ZeroStats
    /\ messages' = <<>>
    /\ pcCompact' = pcCompact
    /\ pc' = pc

\* C12: over run, compact, abort and tool execution no counter of the
\* stats (inputTokens, outputTokens, totalTokens, turns, toolCalls) ever
\* decreases; only clearHistory() takes them back to zero.
C12_StatsMonotone == [][C12_Step]_vars

\* two turns and a tool call were counted, and a compaction and an abort
\* left the counters alone
C12_Witness ==
  /\ stats = [inputTokens |-> 4, outputTokens |-> 2, totalTokens |-> 6, turns |-> 2,
              toolCalls |-> 1]
  /\ compactOut = "Compacted"
  /\ aborted

\* the assistant messages of the conversation: one per successful provider
\* call
AssistantCount == Cardinality({i \in 1..Len(messages) : messages[i].role = "assistant"})

\* the tool-use requests in the first n messages
RECURSIVE UsesUpTo(_)
UsesUpTo(n) ==
  IF n = 0 THEN 0
  ELSE UsesUpTo(n - 1)
       + (IF messages[n].role = "assistant" THEN Cardinality(UsePositions(messages[n])) ELSE 0)

\* C13: on a loop whose history was never cleared, stats.turns is the number
\* of successful provider calls and, once a batch is done, stats.toolCalls
\* the number of tool-use requests received, whether executed, failed or
\* denied (within a batch: those reached so far); one tool turn followed by
\* a text turn gives turns = 2 and toolCalls = 1.
C13_CountsMatch ==
  /\ stats.turns = AssistantCount
  /\ stats.toolCalls =
       IF pc \in {"perm", "exec"}
       THEN UsesUpTo(Len(messages)) - Len(toolUses) + idx
       ELSE UsesUpTo(Len(messages))

\* a denied tool request, then a text-only response
C13_Witness ==
  /\ pc = "completed"
  /\ Len(messages) = 4
  /\ Len(messages[3].content) = 1
  /\ messages[3].content[1].text = PermissionDeniedText
  /\ stats.turns = 2
  /\ stats.toolCalls = 1

\* what run() has done so far for the request in progress: entry j is
\* preceded by an entry e
PrecededBy(j, e) == \E i \in 1..(j - 1) : reqLog[i] = e

\* the claim as stated: the counter is incremented and the observer told of
\* the pending call before the permission hook is consulted and before the
\* executor is dispatched
C14_StartBeforePermission ==
  \A j \in 1..Len(reqLog) :
    reqLog[j] \in {"permission", "execute"} =>
      PrecededBy(j, "count") /\ PrecededBy(j, "toolStart")

\* the step in which a request is denied: it was counted, and the observer
\* was not told of it
C14_DenialStep ==
  denied' \ denied # {} => reqLog = <<"count", "permission">>

\* C14: for every request the tool-call counter is incremented first,
\* before the permission hook is consulted; the observer is told of the
\* call (tool-start) after the hook allowed it, or at once when no
\* permission is needed, and right before the executor is dispatched; a
\* denied request is counted and never announced.
C14_CountGateStart ==
  /\ [](/\ reqLog \in {<<>>, <<"count", "permission">>,
                       <<"count", "toolStart", "execute">>,
                       <<"count", "permission", "toolStart", "execute">>}
        /\ pc = "perm" <=> reqLog = <<"count", "permission">>
        /\ pc = "exec" <=> (reqLog # <<>> /\ reqLog[Len(reqLog)] = "execute"))
  /\ [][C14_DenialStep]_vars

\* a gated request was counted, allowed, announced and dispatched
C14_Witness ==
  /\ pc = "exec"
  /\ reqLog = <<"count", "permission", "toolStart", "execute">>
  /\ toolUses[idx].name = "Bash"

\* the first message compact() leaves, for each size the history may have
\* when the summary arrives
SummaryTexts ==
  {"[Conversation summary from 0 messages]\n\ns",
   "[Conversation summary from 1 messages]\n\ns",
   "[Conversation summary from 2 messages]\n\ns",
   "[Conversation summary from 3 messages]\n\ns",
   "[Conversation summary from 4 messages]\n\ns",
   "[Conversation summary from 5 messages]\n\ns",
   "[Conversation summary from 6 messages]\n\ns",
   "[Conversation summary from 7 messages]\n\ns",
   "[Conversation summary from 8 messages]\n\ns",
   "[Conversation summary from 9 messages]\n\ns"}

\* the steps of one compact(): the summary is asked for only when the
\* history has 4 messages or more, in one provider call, which leaves the
\* history alone; when it is answered the history is exactly the summary
\* message and the acknowledgment
C15_Step ==
  /\ (pcCompact = "idle" /\ pcCompact' # "idle") =>
       Len(messages) >= 4 /\ messages' = messages
  /\ (pcCompact = "idle" /\ pcCompact' = "idle" /\ compactOut' # compactOut) =>
       Len(messages) < 4 /\ messages' = messages /\ compactOut' = "Nothing to compact"
  /\ (pcCompact # "idle" /\ compactOut' = "Compacted") =>
       /\ pcCompact' = "idle"
       /\ Len(messages') = 2
       /\ messages'[1].role = "user"
       /\ messages'[1].text \in SummaryTexts
       /\ messages'[2] =
            [role |-> "assistant", content |-> <<>>,
             text |-> "Understood. I have the context from the conversation summary. How can I continue helping?"]
  /\ (pcCompact # "idle" /\ pcCompact' # "idle") =>
       /\ pcCompact' \in {pcCompact, "detached", "doomed"}
       /\ compactOut' = compactOut

\* C15: compact() on a history of at least 4 messages, once its summary
\* call is answered, leaves exactly 2 messages whatever the size was: a user
\* message embedding the summary and the fixed assistant acknowledgment; it
\* makes exactly one provider call.
C15_CompactLeavesTwo == [][C15_Step]_vars

\* a history of five messages was compacted
C15_Witness ==
  /\ compactOut = "Compacted"
  /\ pcCompact = "idle"
  /\ Len(messages) = 2
  /\ messages[1].text = "[Conversation summary from 5 messages]\n\ns"

\* what an abort() step does and leaves alone
C16_AbortEffect ==
  /\ abortController => aborted'
  /\ pc = "calling" => aborted'
  /\ Len(agents') = Len(agents)
  /\ \A k \in 1..Len(agents) :
       /\ agents'[k].id = agents[k].id
       /\ agents'[k].run = agents[k].run
       /\ agents'[k].aborted
  /\ messages' = messages
  /\ executed' = executed
  /\ toolResults' = toolResults
  /\ completedResults' = completedResults
  /\ pc' = pc

\* C16: abort() aborts the signal given to the run's in-flight provider
\* call and aborts every sub-agent running at that instant; it removes no
\* message, undoes no tool execution and drops no recorded result.
C16_AbortPropagates == [][Abort => C16_AbortEffect]_vars

\* abort() during the second provider call of a run, after a tool was
\* executed, while two sub-agents run and a third has completed
C16_Witness ==
  /\ pc = "calling"
  /\ aborted
  /\ Len(messages) = 3
  /\ Cardinality(executed) = 1
  /\ Len(agents) = 2
  /\ \A k \in 1..Len(agents) : agents[k].aborted /\ agents[k].run = "pending"
  /\ Len(completedResults) = 1
  /\ ~IsRunning(completedResults[1].id)

(***************************************************************************)
(* Properties of the sub-agent manager.                                    *)
(***************************************************************************)
Range(s) == {s[k] : k \in 1..Len(s)}

\* the ids getStatus() reports as running and as completed
StatusRunning == Range(GetStatus.running)

StatusCompleted == {GetStatus.completed[k].id : k \in 1..Len(GetStatus.completed)}

\* C17: every id spawn() has returned is either running or completed, never
\* both and never neither, and is held once; nothing else is held. The move
\* from running to completed happens in one step, so no operation can
\* observe the id in between.
C17_RunningXorCompleted ==
  /\ StatusRunning \cup StatusCompleted = Range(spawnLog)
  /\ StatusRunning \cap StatusCompleted = {}
  /\ \A id \in Range(spawnLog) :
       Cardinality(RunningAt(id)) + Cardinality(CompletedAt(id)) = 1

\* agent 2 completed before agent 1, agent 3 is still running
C17_Witness ==
  /\ GetStatus.running = <<"3">>
  /\ Len(completedResults) = 2
  /\ completedResults[1].id = "2"
  /\ completedResults[2].id = "1"

\* waitAll() is called, and returns
WaitAllCalled == waitAllCall.state = "idle" /\ waitAllCall'.state = "pending"

WaitAllReturned == waitAllCall.state = "pending" /\ waitAllCall'.state = "resolved"

\* the claim as stated: waitAll() on a manager with N spawned tasks waits
\* for N tasks and returns N results
C18_OnePerSpawned ==
  [][/\ WaitAllCalled => Len(waitAllCall'.ids) = idCounter
     /\ WaitAllReturned => Len(waitAllCall'.value) = Len(waitAllCall.ids)]_vars

\* the step in which a task's result is recorded: error for a run() that
\* rejected, completed for one that returned
C18_RecordStep ==
  Len(completedResults') > Len(completedResults) =>
    LET r == completedResults'[Len(completedResults')]
    IN /\ completedResults' = Append(completedResults, r)
       /\ \E k \in 1..Len(agents) :
            /\ agents[k].id = r.id
            /\ agents[k].run = "rejected" => r.status = "error" /\ r.result = ""
            /\ agents[k].run = "returned" => r.status = "completed" /\ r.result = "xy"
            /\ agents[k].run # "pending"

\* C18: waitAll() returns exactly one result per task that is running when
\* it is called, in spawn order, with status error for each of them that
\* fails and completed for the others, whatever the order in which they
\* complete; a failure keeps no other task from reporting. Tasks that
\* completed before the call are not among the results.
C18_OnePerRunning ==
  /\ [][WaitAllCalled => waitAllCall'.ids = GetStatus.running]_vars
  /\ [][WaitAllReturned =>
          /\ Len(waitAllCall'.value) = Len(waitAllCall.ids)
          /\ \A k \in 1..Len(waitAllCall.ids) :
               /\ waitAllCall'.value[k].id = waitAllCall.ids[k]
               /\ waitAllCall'.value[k] \in Range(completedResults)]_vars
  /\ [][C18_RecordStep]_vars
  /\ [](waitAllCall.state = "pending" =>
          \A k \in 1..Len(waitAllCall.ids) : waitAllCall.ids[k] \in Range(spawnLog))

\* three tasks were running at the call; the second failed, and the tasks
\* did not complete in spawn order
C18_Witness ==
  /\ waitAllCall.state = "resolved"
  /\ Len(waitAllCall.value) = 3
  /\ waitAllCall.value[1] = [id |-> "1", result |-> "xy", status |-> "completed", error |-> ""]
  /\ waitAllCall.value[2] = [id |-> "2", result |-> "", status |-> "error", error |-> "boom"]
  /\ waitAllCall.value[3].status = "completed"
  /\ completedResults[1].id = "3"

\* waitFor(id) is called
WaitForCalled == waitForCall.state = "idle" /\ waitForCall'.state # "idle"

\* the step of the call: it fails exactly for an id spawn() never returned,
\* answers from the cache for a completed task, and waits for a running one
C19_CallStep ==
  WaitForCalled =>
    LET id == waitForCall'.ids[1]
    IN /\ waitForCall'.state = "rejected" <=> id \notin Range(spawnLog)
       /\ waitForCall'.state = "rejected" =>
            waitForCall'.value \in {<<"Sub-agent 1 not found">>, <<"Sub-agent 2 not found">>,
                                    <<"Sub-agent 3 not found">>, <<"Sub-agent 4 not found">>,
                                    <<"Sub-agent 5 not found">>}
       /\ waitForCall'.state = "cached" <=> id \in StatusCompleted
       /\ waitForCall'.state = "pending" <=> id \in StatusRunning

\* C19: waitFor(id) resolves to the result recorded for task id, the same
\* record whether the call was made while the task was running or after it
\* completed, however the call and the completion interleave; for an id
\* that spawn() never returned it fails with an error.
C19_WaitForResult ==
  /\ [][C19_CallStep]_vars
  /\ [](waitForCall.state \in {"cached", "resolved"} =>
          /\ Len(waitForCall.value) = 1
          /\ waitForCall.value[1].id = waitForCall.ids[1]
          /\ waitForCall.value[1] \in Range(completedResults)
          /\ Cardinality(CompletedAt(waitForCall.ids[1])) = 1)
  /\ [](waitForCall.state = "pending" => waitForCall.ids[1] \in Range(spawnLog))

\* waitFor("2") was called while task 2 ran, and resolved to its failure
C19_Witness ==
  /\ waitForCall.state = "resolved"
  /\ waitForCall.value = <<[id |-> "2", result |-> "", status |-> "error", error |-> "boom"]>>
  /\ IsRunning("1")

\* the number a decimal id stands for
DecimalValue ==
  [s \in {"1", "2", "3", "4", "5", "6", "7", "8", "9"} |->
     CASE s = "1" -> 1 [] s = "2" -> 2 [] s = "3" -> 3 [] s = "4" -> 4 [] s = "5" -> 5
       [] s = "6" -> 6 [] s = "7" -> 7 [] s = "8" -> 8 [] s = "9" -> 9]

\* the step of spawn(): the id is returned while the child's run() is still
\* pending, and it was never held before
C20_SpawnStep ==
  Len(spawnLog') > Len(spawnLog) =>
    LET id == spawnLog'[Len(spawnLog')]
    IN /\ spawnLog' = Append(spawnLog, id)
       /\ id \notin Range(spawnLog) \cup StatusRunning \cup StatusCompleted
       /\ \E k \in 1..Len(agents') :
            agents'[k].id = id /\ ~agents'[k].aborted /\ agents'[k].run = "pending"
       /\ completedResults' = completedResults

\* C20: spawn() returns its id while the child's run() is still pending; the
\* k-th id returned by a manager is the decimal string of k ("1", "2", ...),
\* so the ids are strictly increasing, pairwise distinct and never reused,
\* also after earlier tasks completed.
C20_SpawnIds ==
  /\ [][C20_SpawnStep]_vars
  /\ [](/\ Len(spawnLog) = idCounter
        /\ \A k \in 1..Len(spawnLog) :
             spawnLog[k] \in DOMAIN DecimalValue /\ DecimalValue[spawnLog[k]] = k)

\* three ids were handed out, the last after the first two tasks completed
C20_Witness ==
  /\ spawnLog = <<"1", "2", "3">>
  /\ StatusCompleted = {"1", "2"}
  /\ Len(agents) = 1
  /\ agents[1].id = "3"
  /\ agents[1].run = "pending"

(***************************************************************************)
(* Properties of a task's result, its budget and its isolation.            *)
(***************************************************************************)
\* the result recorded by a step that records one
RecordedNow == completedResults'[Len(completedResults')]

\* C21: a spawned task has no result while it runs and exactly one after
\* its loop has finished: completed with the value run() returned, or error
\* with the failure's message. A recorded result is never replaced, removed
\* or recorded again.
C21_OneResultPerTask ==
  /\ [](\A id \in Range(spawnLog) :
          /\ IsRunning(id) => CompletedAt(id) = {}
          /\ ~IsRunning(id) => Cardinality(CompletedAt(id)) = 1)
  /\ [][/\ Len(completedResults') \in {Len(completedResults), Len(completedResults) + 1}
        /\ \A k \in 1..Len(completedResults) : completedResults'[k] = completedResults[k]]_vars
  /\ [][Len(completedResults') > Len(completedResults) =>
          \E k \in RunningAt(RecordedNow.id) :
            /\ agents[k].run \in ChildOutcomes
            /\ CompletedAt(RecordedNow.id) = {}
            /\ RecordedNow =
                 IF agents[k].run = "returned"
                 THEN [id |-> agents[k].id, result |-> "xy", status |-> "completed", error |-> ""]
                 ELSE [id |-> agents[k].id, result |-> "", status |-> "error", error |-> "boom"]]_vars

\* the first task failed and the second returned, each has its one result;
\* the third has settled but its callback has not run: it has none
C21_Witness ==
  /\ completedResults =
       <<[id |-> "1", result |-> "", status |-> "error", error |-> "boom"],
         [id |-> "2", result |-> "xy", status |-> "completed", error |-> ""]>>
  /\ Len(agents) = 1
  /\ agents[1].id = "3"
  /\ agents[1].run = "returned"

\* C22: the turn budget of every child loop is the smaller of its parent's
\* budget and 20, an unset parent budget standing for the default of 50.
C22_ChildBudgetIsMin ==
  \A k \in 1..Len(agents) : agents[k].maxTurns = Min(MaxTurns, CHILD_MAX_TURNS)

\* what a loop keeps for itself
ParentState == <<messages, stats, tools>>

ChildState(a) == <<a.messages, a.stats, a.tools>>

\* the children whose own state the step changes
ChangedChildren ==
  {k \in 1..Len(agents) :
     \E j \in 1..Len(agents') :
       agents'[j].id = agents[k].id /\ ChildState(agents'[j]) # ChildState(agents[k])}

RegistersNow(name, r) ==
  /\ Has(tools', name)
  /\ Lookup(tools', name) = [name |-> name, definition |-> r.definition, execute |-> r.execute]
  /\ IF Has(tools, name)
     THEN /\ Len(tools') = Len(tools)
          /\ \A k \in 1..Len(tools) : tools[k].name # name => tools'[k] = tools[k]
     ELSE /\ Len(tools') = Len(tools) + 1
          /\ tools'[Len(tools')].name = name
          /\ \A k \in 1..Len(tools) : tools'[k] = tools[k]

\* run() issues a new provider request
CallStarts == pc # "calling" /\ pc' = "calling" /\ attempts' = 1

\* an executor is invoked for the request u
InvokedNow(u) == u.id \in executed' /\ u.id \notin executed

\* C24: the registry holds one entry per name. A registration adds the
\* name, or replaces the definition and the executor held under it, and
\* leaves every other entry alone; nothing else changes the registry. The
\* executor invoked for a request is the one the registry holds under the
\* request's name at that moment, and the tool list of a provider request
\* is the registry's definitions at the moment the request is issued,
\* every earlier registration included.
C24_RegistryByName ==
  /\ [](\A j, k \in 1..Len(tools) : tools[j].name = tools[k].name => j = k)
  /\ [](Len(GetDefinitions(tools)) = Len(tools))
  /\ [][tools' # tools =>
          \E name \in RegisteredNames, r \in Registrations : RegistersNow(name, r)]_vars
  /\ [][\A k \in 1..Len(toolUses') :
          InvokedNow(toolUses'[k]) =>
            /\ Cardinality(RegisteredAt(tools, toolUses'[k].name)) = 1
            /\ \A j \in RegisteredAt(tools, toolUses'[k].name) :
                 invoked' = <<toolUses'[k].name, tools[j].execute>>]_vars
  /\ [][CallStarts =>
          /\ Len(request') = Len(tools)
          /\ \A k \in 1..Len(tools) :
               request'[k] = [name |-> tools[k].name, definition |-> tools[k].definition]]_vars

\* the host's tool was registered, replaced, and then requested: the
\* request listed its second definition, last, and ran its second executor
C24_Witness ==
  /\ Len(tools) = Len(BuiltinTools) + 1
  /\ Len(request) = Len(tools)
  /\ request[Len(request)] = [name |-> "Custom", definition |-> "d2"]
  /\ request[2] = [name |-> "Read", definition |-> "d1"]
  /\ invoked = <<"Custom", "e2">>
  /\ stats.toolCalls = 1

(***************************************************************************)
(* Properties of the stream parsers.                                       *)
(***************************************************************************)
RECURSIVE Flatten(_)
Flatten(lines) == IF lines = <<>> THEN <<>> ELSE Head(lines) \o Flatten(Tail(lines))

\* the bytes the reads have delivered so far
Consumed == SubSeq(Flatten(sent), 1, Len(Flatten(sent)) - Len(wire))

\* the parser after the same bytes, delivered by a single read
InOneChunk == Feed(InitialParser(parser.backend), Consumed)

\* C25: whatever the cuts between the chunks (between lines, inside a
\* line, inside the payload of an event or between two fragments of a
\* tool call's arguments), the parser holds what it holds when the same
\* bytes arrive in one chunk: the same accumulators, blocks, stop reason,
\* token counts and sequence of callback deltas while it reads, and the same
\* result or failure once the stream has ended. Any two chunkings of a
\* stream therefore yield the same result and the same callbacks.
C25_ChunkingIrrelevant ==
  CASE parser.status = "reading" -> parser = InOneChunk
    [] parser.status = "returned" -> parser = Finish(InOneChunk)
    [] parser.status = "failed" ->
         \/ parser = InOneChunk
         \/ InOneChunk.status = "reading" /\ parser = Finish(InOneChunk)
    [] OTHER -> TRUE

\* a read has ended inside the line that carries the second fragment of a
\* tool call's arguments; the first fragment is held, the half line is kept
C25_Witness ==
  /\ parser.status = "reading"
  /\ parser.backend \in {"anthropic", "openai"}
  /\ Len(parser.buffer) = 1
  /\ parser.buffer[1].part = "head"
  /\ parser.buffer[1].ev.args = "1}"
  /\ \/ 0 \in DOMAIN parser.blockToolJsons /\ parser.blockToolJsons[0] = "{\"k\":"
     \/ Len(parser.toolCalls) = 1 /\ parser.toolCalls[1].args = "{\"k\":"

\* the events of the lines the backend has written
Written == EventsOf(sent)

\* C26: for every backend, a tool call whose argument text is no valid JSON
\* does not fail the call: the only streams whose call fails are those
\* that carry an error event.
C26_InvalidArgsTolerated ==
  parser.status = "failed" => \E k \in 1..Len(Written) : Written[k].type = "error"

\* the complete lines among the bytes read, and the place of the first of
\* them that carries an error event
ConsumedLines == SplitLines(Consumed, <<>>, <<>>).lines

ErrorLines == {k \in 1..Len(ConsumedLines) : DecodeLine(ConsumedLines[k]) = <<ErrorEvent>>}

FirstErrorLine == CHOOSE k \in ErrorLines : \A j \in ErrorLines : k <= j

\* what a parser holds apart from its line buffer and how the call stands
Held(ps) == [ps EXCEPT !.buffer = <<>>, !.status = "", !.error = ""]

\* C27: once the Anthropic parser has read a line that carries an error
\* event the call has failed with that event's message: it holds what the
\* events before the error left, nothing of the events after it, it never
\* returns a result, and it takes no further step.
C27_ErrorEventFails ==
  /\ [](parser.backend = "anthropic" /\ ErrorLines # {} =>
          /\ parser.status = "failed"
          /\ parser.error = "Stream error: Overloaded"
          /\ Held(parser) =
               Held(ProcessLines(InitialParser("anthropic"),
                                 SubSeq(ConsumedLines, 1, FirstErrorLine - 1))))
  /\ [][parser.status = "failed" => parser' = parser]_vars

\* a text block was opened, then the error event and a text delta after
\* it arrived in one chunk: the call failed, the block is as the events
\* before the error left it and the delta reached no callback
C27_Witness ==
  /\ parser.backend = "anthropic"
  /\ parser.status = "failed"
  /\ Len(ConsumedLines) = 3
  /\ ErrorLines = {2}
  /\ DecodeLine(ConsumedLines[3]) = <<BlockDelta(0, "text_delta", "a")>>
  /\ DOMAIN parser.blockTexts = {0}
  /\ parser.blockTexts[0] = ""
  /\ parser.callbacks = <<>>
  /\ parser.stopReason = "end_turn"

\* the unified stop reasons
StopReasons == {"end_turn", "tool_use", "max_tokens", "error"}

\* C28: for every backend and every finish reason it may send, the stop
\* reason of a returned result is one of the unified ones.
C28_StopReasonUnified == parser.status = "returned" => parser.stopReason \in StopReasons

\* the kinds of the blocks a stream produced, in the order in which the
\* first piece of each arrived: for Anthropic the blocks that were stopped,
\* for the others the text and each tool call
RECURSIVE ProducedKinds(_, _, _)
ProducedKinds(backend, evs, seen) ==
  IF evs = <<>> THEN <<>>
  ELSE LET e == Head(evs)
           key == CASE backend = "anthropic" /\ e.type = "content_block_start"
                         /\ (\E k \in 1..Len(evs) :
                               evs[k].type = "content_block_stop" /\ evs[k].index = e.index)
                         -> <<e.kind, e.index>>
                    [] backend = "openai" /\ e.type = "chunk" /\ e.text # "" -> <<"text", 0>>
                    [] backend = "openai" /\ e.type = "chunk" /\ e.kind = "tool_call"
                         -> <<"tool_use", e.index>>
                    [] backend = "gemini" /\ e.text # "" -> <<"text", 0>>
                    [] backend = "gemini" /\ e.kind = "functionCall"
                         -> <<"tool_use", Len(evs)>>
                    [] OTHER -> <<>>
       IN IF key = <<>> \/ key \in seen
          THEN ProducedKinds(backend, Tail(evs), seen)
          ELSE <<key[1]>> \o ProducedKinds(backend, Tail(evs), seen \cup {key})

\* C29: for every backend the content list of a returned result holds the
\* blocks in the order in which the stream produced them.
C29_OrderPreserved ==
  parser.status = "returned" =>
    [k \in 1..Len(parser.content) |-> parser.content[k].type]
      = ProducedKinds(parser.backend, Written, {})

\* the complete lines read, without those that carry an event of a type
\* the parser does not know
Recognised(line) == DecodeLine(line) # <<Ping>>

\* C30: the Anthropic parser passes over an event of an unknown type: with
\* the event or without it the parser holds the same accumulators, blocks,
\* stop reason, token counts and callback deltas, the call stands as it
\* would without it, and the events after it are processed.
C30_UnknownEventIgnored ==
  parser.backend = "anthropic" =>
    LET without == ProcessLines(InitialParser("anthropic"),
                                SelectSeq(ConsumedLines, Recognised))
    IN /\ Held(parser) = Held(without)
       /\ parser.status = "failed" <=> without.status = "failed"

\* a ping arrived while a text block was open; the delta after it was
\* processed
C30_Witness ==
  /\ parser.backend = "anthropic"
  /\ parser.status = "reading"
  /\ Len(ConsumedLines) = 3
  /\ DecodeLine(ConsumedLines[2]) = <<Ping>>
  /\ DecodeLine(ConsumedLines[3]) = <<BlockDelta(0, "text_delta", "a")>>
  /\ parser.blockTexts[0] = "a"
  /\ parser.callbacks = <<[cb |-> "onText", delta |-> "a"]>>


(***************************************************************************)
(* The turn budget over the lifetime of a loop.                            *)
(***************************************************************************)
\* run() is invoked on a loop that has used up its budget
C36_ExhaustedRun == Run /\ stats.turns = MaxTurns

\* such a run pushes its user message and returns the sentinel: no provider
\* request is built, no attempt made, no executor invoked
C36_RunStep ==
  C36_ExhaustedRun =>
    /\ messages' = Append(messages, TextMessage("user", "u"))
    /\ pc' = "maxturns"
    /\ output' = MaxTurnsSentinel
    /\ UNCHANGED <<request, attempts, invoked, executed, inflight, stats>>

\* stats.turns goes down in a clearHistory() step only, which sets it to 0
C36_RestoreStep ==
  stats'.turns < stats.turns => ClearHistory /\ stats'.turns = 0

\* C36: the turn budget belongs to the loop, not to one run. A run() started
\* when stats.turns equals maxTurns appends its user message, calls no
\* provider, executes no tool and returns the truncation sentinel; the
\* counter is only ever lowered by clearHistory(), which resets it to 0.
C36_BudgetPerLifetime == [][C36_RunStep /\ C36_RestoreStep]_vars

\* a second run on a loop of budget at least 1 found the budget used up
C36_Witness ==
  /\ pc = "maxturns"
  /\ MaxTurns >= 1
  /\ stats.turns = MaxTurns
  /\ messages # <<>>
  /\ messages[Len(messages)] = TextMessage("user", "u")
  /\ Len(messages) >= 3

(***************************************************************************)
(* compact() that does not compact.                                        *)
(***************************************************************************)
\* compact() invoked on fewer than 4 messages returns at once: no provider
\* call is started, nothing is touched
C37_ShortStep ==
  CompactStart /\ Len(messages) < 4 =>
    /\ pcCompact' = "idle"
    /\ compactOut' = "Nothing to compact"
    /\ UNCHANGED <<messages, stats, request, attempts>>

\* the summarisation call of compact() fails: compact() rejects
C37_Fails == pcCompact # "idle" /\ pcCompact' = "idle" /\ compactOut' = "failed"

\* C37: compact() is all-or-nothing. On fewer than 4 messages it calls no
\* provider and leaves the conversation as it is; when its summarisation
\* call fails, compact() fails with it and the step leaves the conversation
\* and the stats exactly as they were.
C37_CompactAllOrNothing ==
  [][C37_ShortStep /\ (C37_Fails => UNCHANGED <<messages, stats>>)]_vars

\* a compact() over at least 4 messages has failed
C37_Witness ==
  /\ compactOut = "failed"
  /\ pcCompact = "idle"
  /\ Len(messages) >= 4

(***************************************************************************)
(* The conversation run() sends.                                           *)
(***************************************************************************)
\* user first, user last, no two neighbours of one role
Alternates(msgs) ==
  /\ msgs # <<>>
  /\ msgs[1].role = "user"
  /\ msgs[Len(msgs)].role = "user"
  /\ \A k \in 1..(Len(msgs) - 1) : msgs[k].role # msgs[k + 1].role

\* C35: whenever run() has a provider call in progress, over any sequence
\* of runs on one loop, the conversation it sent starts with a user
\* message, ends with a user message and alternates between the two roles.
C35_SentAlternates == pc = "calling" => Alternates(messages)

(***************************************************************************)
(* clearHistory() and compact() while a run is suspended.                  *)
(***************************************************************************)
\* a user message that carries tool results
HasToolResults(m) ==
  m.role = "user" /\ \E k \in 1..Len(m.content) : m.content[k].type = "tool_result"

\* C33: whatever the host invokes while a run is suspended, clearHistory()
\* and compact() included, every user message of tool results in the
\* conversation comes right after the assistant message whose tool-use
\* blocks it answers.
C33_ResultsFollowRequests ==
  \A i \in 1..Len(messages) :
    HasToolResults(messages[i]) =>
      /\ i > 1
      /\ HasToolUses(messages[i - 1])
      /\ Answers(messages[i], messages[i - 1])

(***************************************************************************)
(* abort() during a batch.                                                 *)
(***************************************************************************)
\* C34: once abort() has been invoked during a run, no step of that run
\* invokes an executor that had not been invoked before: the requests of
\* the batch still waiting are not executed.
C34_NoStartAfterAbort == [][aborted /\ Running => executed' \subseteq executed]_vars

(***************************************************************************)
(* Text deltas of a streamed response.                                     *)
(***************************************************************************)
\* the deltas handed to the text callback, joined in delivery order
RECURSIVE JoinDeltas(_)
JoinDeltas(calls) ==
  IF calls = <<>> THEN ""
  ELSE (IF Head(calls).cb = "onText" THEN Head(calls).delta ELSE "")
       \o JoinDeltas(Tail(calls))

\* the text blocks of a content list, joined in order
RECURSIVE JoinBlocks(_)
JoinBlocks(content) ==
  IF content = <<>> THEN ""
  ELSE (IF Head(content).type = "text" THEN Head(content).text ELSE "")
       \o JoinBlocks(Tail(content))

\* the text of the blocks the Anthropic parser holds open, by block index
RECURSIVE JoinOpen(_, _)
JoinOpen(texts, i) ==
  IF i >= MaxBlocks THEN ""
  ELSE GetOrEmpty(texts, i) \o JoinOpen(texts, i + 1)

\* the text a parser has taken in so far: for the Anthropic parser the
\* completed text blocks and the block still open, for the others the
\* accumulated text
TextSoFar(ps) ==
  IF ps.backend = "anthropic" THEN JoinBlocks(ps.content) \o JoinOpen(ps.blockTexts, 0)
  ELSE ps.textContent

\* no text block was left open
AllCompleted(ps) == ps.backend = "anthropic" => DOMAIN ps.blockTexts = {}

TotalIsSum(st) == st.totalTokens = st.inputTokens + st.outputTokens

\* C38: in every state of a loop the total of stats is the sum of its input
\* and output tokens, after clearHistory() as well, and the same holds of
\* every snapshot emitStats() hands to the stats observer.
C38_TotalIsSum ==
  /\ TotalIsSum(stats)
  /\ \A k \in 1..Len(emitted) : TotalIsSum(emitted[k])

\* two turns were counted and the observer holds the snapshot of the second
C38_Witness ==
  /\ stats.turns = 2
  /\ stats.totalTokens = 6
  /\ emitted # <<>>
  /\ emitted[1].totalTokens = 6

(***************************************************************************)
(* The task list.                                                          *)
(***************************************************************************)
TaskIds(ts) == {ts[k].id : k \in 1..Len(ts)}

\* the step invokes the executor the constructor registered under `name`
TaskToolRuns(name) ==
  \E k \in 1..Len(toolUses') :
    /\ InvokedNow(toolUses'[k])
    /\ toolUses'[k].name = name
    /\ invoked' = <<name, "builtin">>

\* one pending task is appended, under an id no listed task has
C31_Created ==
  /\ Len(tasks') = Len(tasks) + 1
  /\ SubSeq(tasks', 1, Len(tasks)) = tasks
  /\ tasks'[Len(tasks')].status = "pending"
  /\ tasks'[Len(tasks')].id \notin TaskIds(tasks)

\* the status of the task of one id is set, and that id reported; nothing
\* else differs
C31_Updated ==
  /\ Len(tasks') = Len(tasks)
  /\ \E k \in 1..Len(tasks) :
       /\ \A j \in 1..Len(tasks) : j # k => tasks'[j] = tasks[j]
       /\ tasks'[k].id = tasks[k].id
       /\ tasks'[k].subject = tasks[k].subject
       /\ pending' = "Task #" \o tasks[k].id \o " -> " \o tasks'[k].status

\* the executor answers that it knows no task of some id the list lacks
C31_NotFound ==
  \E id \in {"1", "2", "9"} \ TaskIds(tasks) :
    pending' = "Error: task " \o id \o " not found"

C31_Step ==
  /\ tasks' # tasks =>
       \/ ClearHistory /\ tasks' = <<>>
       \/ TaskToolRuns("TaskCreate")
       \/ TaskToolRuns("TaskUpdate")
  /\ TaskToolRuns("TaskCreate") => C31_Created
  /\ TaskToolRuns("TaskUpdate") => C31_Updated \/ (C31_NotFound /\ tasks' = tasks)

\* C31: the task list changes in three kinds of step only. clearHistory()
\* empties it; the TaskCreate executor appends one pending task whose id no
\* other task of the list has; the TaskUpdate executor sets the status of
\* the task of the given id and nothing else, or, given an id the list
\* lacks, returns an error text and leaves the list as it was. The ids of
\* the list are always distinct.
C31_TaskListDiscipline ==
  /\ [][C31_Step]_vars
  /\ [](\A j, k \in 1..Len(tasks) : tasks[j].id = tasks[k].id => j = k)

\* a task was created and completed, and a later update named an id the
\* list lacks
C31_Witness ==
  /\ Len(tasks) = 1
  /\ tasks[1].id = "1"
  /\ tasks[1].status = "completed"
  /\ pending = "Error: task 9 not found"

(***************************************************************************)
(* Reads of user input.                                                    *)
(***************************************************************************)
\* C40: no read of user input is lost: every promise readFromUser returned
\* and nothing has resolved yet is one a later resolveUserInput call will
\* resolve, also when two reads are outstanding at the same time.
C40_NoReadLost ==
  \A k \in 1..Len(reads) : reads[k].value = <<>> => userInputResolver = k

(***************************************************************************)
(* The permission gate over the parent loop and its sub-tasks.             *)
(***************************************************************************)
\* the executor run() is awaiting in the parent loop was allowed by the
\* hook if its tool is gated
ParentGated ==
  pc = "exec" /\ toolUses[idx].id \in executed /\ toolUses[idx].name \in DANGEROUS_TOOLS =>
    /\ toolUses[idx].id \notin denied
    /\ \E k \in 1..Len(reqLog) : reqLog[k] = "permission"

\* a request of a child loop for a gated tool was answered by its executor
ChildRanGated(a) ==
  \E i \in 1..(Len(a.messages) - 1) :
    /\ HasToolUses(a.messages[i])
    /\ \E k \in 1..Len(a.messages[i].content) :
         /\ a.messages[i].content[k].name \in DANGEROUS_TOOLS
         /\ \E j \in 1..Len(a.messages[i + 1].content) :
              /\ a.messages[i + 1].content[j].id = a.messages[i].content[k].id
              /\ a.messages[i + 1].content[j].text # PermissionDeniedText

\* C32: with a permission hook configured on the parent loop, no executor
\* of Bash, Write or Edit runs in the parent or in any sub-task spawned
\* from it unless the hook allowed that call; a sub-task, which is never
\* given the hook, therefore runs none.
C32_GateCoversSubTasks ==
  config.hasPermissionHook =>
    /\ ParentGated
    /\ \A k \in 1..Len(agents) : ~ChildRanGated(agents[k])
====
